---- MODULE Spec2Model ----
(***************************************************************************)
(* Model of the Optiroute CVRP pipeline:                                   *)
(*   - WarehouseManager (src/warehouse_manager.py): pre-allocation of      *)
(*     customers between the vehicles (solver) and the warehouse;          *)
(*   - ORToolsSolver / CVRPSolver (src/cvrp_solver.py): extraction of a    *)
(*     CVRPSolution from a routing assignment and the final depot          *)
(*     reconfiguration;                                                    *)
(*   - main (src/main.py): the parallel race of workers and the choice of  *)
(*     the winner.                                                         *)
(* Volumes are integers (one unit of volume); the utilisation parameters   *)
(* of the configuration are integer percentages, so that x > cap * p is    *)
(* 100 * x > cap * pct.  Coordinates are points of a line.  A route keeps  *)
(* its distance in metres and its time in seconds: total_distance_m is     *)
(* total_distance_km * 1000 and total_time_s is total_time_minutes * 60,   *)
(* and the limits are compared in the same units.  An optional limit that  *)
(* is None is written 0 (the code tests it by truth value).                *)
(***************************************************************************)
EXTENDS Integers, Sequences, FiniteSets, TLC

VARIABLES
    pc,                 \* position of the run
    customers,          \* input_data.customers
    warehouse_config,   \* get_config().warehouse
    vehicle_configs,    \* get_config().vehicles
    allocation,         \* WarehouseAllocation, or NoAllocation
    cvrp_config,        \* get_config().cvrp
    depot_location,     \* get_config().locations.depot_location
    cpu_cores,          \* os.cpu_count() or 1
    distance_matrix,    \* the DistanceMatrix main() hands to the workers
    solver_configs,     \* main(): the CVRPConfig of each worker
    solver_runs,        \* per worker: what its ORToolsSolver did
    results,            \* main(): what each worker returned
    best_solution,      \* main(): the solution selected
    osrm_config,        \* get_config().osrm
    matrix_calls,       \* how many times main() has called get_distance_matrix
    central_cache,      \* the central matrix cache: the stored matrices
    engine_requests,    \* how many table requests the routing engine has received
    engine_epoch,       \* the version of the road data the routing engine answers from
    callers,            \* the calls of get_distance_matrix under way
    builds,             \* the chunked builds in flight
    location_config,    \* get_config().locations: the center zone
    routing,            \* the routing model ORToolsSolver.solve has built
    extraction          \* the locals of the walk that extracts one vehicle's route

configVars ==
    <<warehouse_config, vehicle_configs, cvrp_config, depot_location, cpu_cores,
      location_config>>

raceVars == <<solver_configs, solver_runs, results, best_solution>>

matrixVars ==
    <<osrm_config, matrix_calls, central_cache, engine_requests, engine_epoch, callers, builds>>

mainVars ==
    <<pc, customers, allocation, distance_matrix, configVars, raceVars, routing, extraction>>

vars == <<mainVars, matrixVars>>

(***************************************************************************)
(* Bounds of the model                                                     *)
(***************************************************************************)
MaxCustomers == 3

Volumes == {1, 2, 4, 6}

NoAllocation == [none |-> TRUE]

NoMatrix == [none |-> TRUE]

\* None, for a result or a solution that does not exist
NoSolution == [none |-> TRUE]

\* a worker that has not returned yet
Pending == [pending |-> TRUE]

\* start_location = None
NoLocation == -1

\* OSRMConfig: the chunk size of the model's small location lists
DefaultOSRMConfig == [chunk_size |-> 2]

\* LocationConfig: the center of the line's center zone and the zone's radius
DefaultLocationConfig ==
    [center_location |-> 5, center_zone_radius_km |-> 1,
     enable_center_zone_restrictions |-> FALSE,
     internal_bus_center_penalty_multiplier |-> 2,
     special_bus_center_penalty_multiplier |-> 7,
     external_bus_center_penalty_multiplier |-> 10]

\* no routing model has been built
NoRouting == [none |-> TRUE]

\* no route is being extracted
NoExtraction == [none |-> TRUE]

DefaultCVRPConfig ==
    [first_solution_strategy |-> "PATH_CHEAPEST_ARC",
     local_search_metaheuristic |-> "GUIDED_LOCAL_SEARCH",
     use_simple_solver |-> FALSE,
     enable_final_depot_reconfiguration |-> FALSE,
     enable_parallel_solving |-> FALSE,
     num_workers |-> 1,
     parallel_first_solution_strategies |-> <<>>,
     parallel_local_search_metaheuristics |-> <<>>]

(***************************************************************************)
(* Helpers on lists of customers                                           *)
(***************************************************************************)
RECURSIVE SumVolume(_)
SumVolume(cs) ==
    IF cs = <<>> THEN 0 ELSE Head(cs).volume + SumVolume(Tail(cs))

Ids(cs) == {cs[i].id : i \in 1..Len(cs)}

Occurrences(cs, id) == Cardinality({i \in 1..Len(cs) : cs[i].id = id})

\* insertion of c after every element whose volume is <= c.volume (stable)
RECURSIVE InsertByVolume(_, _)
InsertByVolume(sorted, c) ==
    IF sorted = <<>> THEN <<c>>
    ELSE IF Head(sorted).volume <= c.volume
         THEN <<Head(sorted)>> \o InsertByVolume(Tail(sorted), c)
         ELSE <<c>> \o sorted

\* sorted(cs, key=lambda c: c.volume): ascending and stable
RECURSIVE SortedByVolume(_)
SortedByVolume(cs) ==
    IF cs = <<>> THEN <<>>
    ELSE InsertByVolume(SortedByVolume(SubSeq(cs, 1, Len(cs) - 1)), cs[Len(cs)])

MaxOf(S) == CHOOSE x \in S : \A y \in S : y <= x

(***************************************************************************)
(* WarehouseManager                                                        *)
(***************************************************************************)
EnabledVehicles == {i \in 1..Len(vehicle_configs) : vehicle_configs[i].enabled}

RECURSIVE CapacityFrom(_)
CapacityFrom(i) ==
    IF i > Len(vehicle_configs) THEN 0
    ELSE (IF vehicle_configs[i].enabled
          THEN vehicle_configs[i].capacity * vehicle_configs[i].count
          ELSE 0) + CapacityFrom(i + 1)

_calculate_total_vehicle_capacity == CapacityFrom(1)

_sort_customers(cs) ==
    IF warehouse_config.sort_by_volume THEN SortedByVolume(cs) ELSE cs

\* max(v.capacity for v in self.vehicle_configs if v.enabled); 0 for no configs
max_single_vehicle_capacity ==
    IF vehicle_configs = <<>> THEN 0
    ELSE MaxOf({vehicle_configs[i].capacity : i \in EnabledVehicles})

\* customer.volume > max_single_vehicle_capacity * large_request_threshold
OverThreshold(c) ==
    100 * c.volume > max_single_vehicle_capacity * warehouse_config.large_request_threshold

OverCapacity(c) == c.volume > max_single_vehicle_capacity

\* FillToTarget with the else branch lost: a customer that does not fit is in no list
RECURSIVE FillToTarget_Dropping(_, _, _, _, _)
FillToTarget_Dropping(suitable, target_capacity, current_volume, vehicle, warehouse) ==
    IF suitable = <<>> THEN [vehicle |-> vehicle, warehouse |-> warehouse]
    ELSE LET c == Head(suitable) IN
         IF current_volume + c.volume <= target_capacity
         THEN FillToTarget_Dropping(Tail(suitable), target_capacity,
                                    current_volume + c.volume, Append(vehicle, c), warehouse)
         ELSE FillToTarget_Dropping(Tail(suitable), target_capacity, current_volume,
                                    vehicle, warehouse)

\* the loop of step 3: fill the vehicles up to target_capacity, the rest to the warehouse
RECURSIVE FillToTarget(_, _, _, _, _)
FillToTarget(suitable, target_capacity, current_volume, vehicle, warehouse) ==
    IF suitable = <<>> THEN [vehicle |-> vehicle, warehouse |-> warehouse]
    ELSE LET c == Head(suitable) IN
         IF current_volume + c.volume <= target_capacity
         THEN FillToTarget(Tail(suitable), target_capacity, current_volume + c.volume,
                           Append(vehicle, c), warehouse)
         ELSE FillToTarget(Tail(suitable), target_capacity, current_volume,
                           vehicle, Append(warehouse, c))

_allocate_largest_to_warehouse(cs, total_capacity) ==
    LET large      == SelectSeq(cs, OverThreshold)
        suitable1  == SelectSeq(cs, LAMBDA c : ~OverThreshold(c))
        over       == SelectSeq(suitable1, OverCapacity)
        suitable2  == SelectSeq(suitable1, LAMBDA c : ~OverCapacity(c))
        target_capacity ==
            (total_capacity * warehouse_config.ortools_target_utilization) \div 100
    IN  FillToTarget(SortedByVolume(suitable2), target_capacity, 0, <<>>, large \o over)

Utilization(volume, total_capacity) ==
    IF total_capacity > 0 THEN [num |-> volume, den |-> total_capacity]
    ELSE [num |-> 0, den |-> 1]

_allocate_with_warehouse(cs, total_capacity) ==
    LET split == _allocate_largest_to_warehouse(cs, total_capacity)
        current_volume == SumVolume(split.vehicle)
    IN  [vehicle_customers      |-> split.vehicle,
         warehouse_customers    |-> split.warehouse,
         total_vehicle_capacity |-> total_capacity,
         total_vehicle_volume   |-> current_volume,
         warehouse_volume       |-> SumVolume(split.warehouse),
         capacity_utilization   |-> Utilization(current_volume, total_capacity)]

\* max() of an empty sequence (ValueError) or a division by total_capacity = 0
AllocationRaises ==
    /\ warehouse_config.enable_warehouse
    /\ \/ (vehicle_configs # <<>> /\ EnabledVehicles = {})
       \/ _calculate_total_vehicle_capacity = 0

allocate_customers ==
    LET total_capacity   == _calculate_total_vehicle_capacity
        sorted_customers == _sort_customers(customers)
        vehicle_volume   == SumVolume(sorted_customers)
    IN  IF warehouse_config.enable_warehouse
        THEN _allocate_with_warehouse(sorted_customers, total_capacity)
        ELSE [vehicle_customers      |-> sorted_customers,
              warehouse_customers    |-> <<>>,
              total_vehicle_capacity |-> total_capacity,
              total_vehicle_volume   |-> vehicle_volume,
              warehouse_volume       |-> 0,
              capacity_utilization   |-> Utilization(vehicle_volume, total_capacity)]

\* the loop of optimize_allocation: move from the warehouse while below max_safe_volume
RECURSIVE MoveWhileSafe(_, _, _, _, _)
MoveWhileSafe(warehouse_sorted, total_capacity, current_volume, vehicle, warehouse) ==
    IF warehouse_sorted = <<>> THEN [vehicle |-> vehicle, warehouse |-> warehouse]
    ELSE LET c == Head(warehouse_sorted) IN
         IF 100 * (current_volume + c.volume)
                <= total_capacity * warehouse_config.ortools_safe_utilization
         THEN MoveWhileSafe(Tail(warehouse_sorted), total_capacity,
                            current_volume + c.volume, Append(vehicle, c), warehouse)
         ELSE MoveWhileSafe(Tail(warehouse_sorted), total_capacity,
                            current_volume, vehicle, Append(warehouse, c))

\* a variant that moves every customer of the warehouse to the vehicles
optimize_allocation_MoveAll(a) ==
    LET vehicle == a.vehicle_customers \o SortedByVolume(a.warehouse_customers)
    IN  [a EXCEPT !.vehicle_customers = vehicle, !.warehouse_customers = <<>>,
                  !.total_vehicle_volume = SumVolume(vehicle), !.warehouse_volume = 0,
                  !.capacity_utilization =
                      Utilization(SumVolume(vehicle), a.total_vehicle_capacity)]

optimize_allocation(a) ==
    LET safe == warehouse_config.ortools_safe_utilization
        moved == MoveWhileSafe(SortedByVolume(a.warehouse_customers),
                               a.total_vehicle_capacity, a.total_vehicle_volume,
                               a.vehicle_customers, <<>>)
        optimized_vehicle_volume == SumVolume(moved.vehicle)
    IN  IF a.warehouse_customers = <<>> THEN a
        ELSE IF 100 * a.capacity_utilization.num > safe * a.capacity_utilization.den THEN a
        ELSE IF a.total_vehicle_capacity - a.total_vehicle_volume <= 0 THEN a
        ELSE IF a.total_vehicle_capacity * safe - 100 * a.total_vehicle_volume <= 0 THEN a
        ELSE [vehicle_customers      |-> moved.vehicle,
              warehouse_customers    |-> moved.warehouse,
              total_vehicle_capacity |-> a.total_vehicle_capacity,
              total_vehicle_volume   |-> optimized_vehicle_volume,
              warehouse_volume       |-> SumVolume(moved.warehouse),
              capacity_utilization   |->
                  [num |-> optimized_vehicle_volume, den |-> a.total_vehicle_capacity]]

(***************************************************************************)
(* CVRPSolver.solve: the depots, the matrix and the fleet of the solver    *)
(***************************************************************************)
\* sorted(list(S)) for a set of coordinates
RECURSIVE SortedSeq(_)
SortedSeq(S) ==
    IF S = {} THEN <<>>
    ELSE LET m == CHOOSE x \in S : \A y \in S : x <= y
         IN  <<m>> \o SortedSeq(S \ {m})

\* unique_depots = {depot_location}, then .add(start_location) for each enabled type
\* that sets one: the depots in the order they are met, each once
RECURSIVE EncounteredDepots(_, _, _)
EncounteredDepots(fleet, i, met) ==
    IF i > Len(fleet) THEN met
    ELSE EncounteredDepots(fleet, i + 1,
             IF /\ fleet[i].enabled
                /\ fleet[i].start_location # NoLocation
                /\ \A k \in 1..Len(met) : met[k] # fleet[i].start_location
             THEN Append(met, fleet[i].start_location)
             ELSE met)

RECURSIVE InsertLocation(_, _)
InsertLocation(sorted, x) ==
    IF sorted = <<>> THEN <<x>>
    ELSE IF x < Head(sorted) THEN <<x>> \o sorted
    ELSE <<Head(sorted)>> \o InsertLocation(Tail(sorted), x)

\* a variant that keeps the order in which the depots were met
SortLocations_AsMet(locs) == locs

\* sorted(...) of a list of locations
RECURSIVE SortLocations(_)
SortLocations(locs) ==
    IF locs = <<>> THEN <<>>
    ELSE InsertLocation(SortLocations(SubSeq(locs, 1, Len(locs) - 1)), locs[Len(locs)])

\* CVRPSolver.solve: sorted(list(unique_depots)) for a fleet
DepotListFor(fleet) == SortLocations(EncounteredDepots(fleet, 1, <<depot_location>>))

unique_depots == DepotListFor(vehicle_configs)

\* main.get_distance_matrix: sorted(list(unique_depots), key=lambda x: (x[0], x[1]))
sorted_depots == SortLocations(EncounteredDepots(vehicle_configs, 1, <<depot_location>>))

num_depots == Len(unique_depots)

\* ORToolsSolver.customers
solver_customers == allocation.vehicle_customers

num_customers == Len(solver_customers)

\* list.index(x), 0-based: the first position that holds x
IndexOf(seq, x) == (CHOOSE i \in 1..Len(seq) : seq[i] = x /\ \A j \in 1..(i - 1) : seq[j] # x) - 1

_get_depot_index_for_vehicle(vc) ==
    IF vc.start_location # NoLocation
       /\ \E i \in 1..Len(unique_depots) : unique_depots[i] = vc.start_location
    THEN IndexOf(unique_depots, vc.start_location)
    ELSE 0

\* main.get_distance_matrix: the depots in sorted order, then the customers
HasCoordinates(c) == c.coordinates # NoLocation

RECURSIVE CoordinatesOf(_)
CoordinatesOf(cs) ==
    IF cs = <<>> THEN <<>>
    ELSE (IF HasCoordinates(Head(cs)) THEN <<Head(cs).coordinates>> ELSE <<>>)
         \o CoordinatesOf(Tail(cs))

all_locations == sorted_depots \o CoordinatesOf(solver_customers)

Abs(x) == IF x < 0 THEN -x ELSE x

\* the routing engine's table for a list of locations: metres and seconds
MetresPerUnit == 1000

SecondsPerUnit == 600

MatrixFor(locs) ==
    [locations |-> locs,
     distances |-> [i \in 0..(Len(locs) - 1) |-> [j \in 0..(Len(locs) - 1) |->
                       Abs(locs[i + 1] - locs[j + 1]) * MetresPerUnit]],
     durations |-> [i \in 0..(Len(locs) - 1) |-> [j \in 0..(Len(locs) - 1) |->
                       Abs(locs[i + 1] - locs[j + 1]) * SecondsPerUnit]]]

\* the sum of m[a][b] over the consecutive nodes a, b of a path
RECURSIVE PathSum(_, _)
PathSum(m, nodes) ==
    IF Len(nodes) < 2 THEN 0
    ELSE m[nodes[1]][nodes[2]] + PathSum(m, Tail(nodes))

\* _create_data_model: one entry per vehicle instance, the index of its config
RECURSIVE ExpandVehicles(_)
ExpandVehicles(i) ==
    IF i > Len(vehicle_configs) THEN <<>>
    ELSE (IF vehicle_configs[i].enabled
          THEN [n \in 1..vehicle_configs[i].count |-> i]
          ELSE <<>>) \o ExpandVehicles(i + 1)

num_vehicles == Len(ExpandVehicles(1))

VehicleIds == 0..(num_vehicles - 1)

\* the first enabled config (1-based position), 0 when there is none
FirstEnabled ==
    IF EnabledVehicles = {} THEN 0
    ELSE CHOOSE i \in EnabledVehicles : \A j \in EnabledVehicles : i <= j

RECURSIVE ConfigForId(_, _, _)
ConfigForId(i, current_id, vehicle_id) ==
    IF i > Len(vehicle_configs) THEN vehicle_configs[FirstEnabled]
    ELSE IF ~vehicle_configs[i].enabled THEN ConfigForId(i + 1, current_id, vehicle_id)
    ELSE IF current_id <= vehicle_id /\ vehicle_id < current_id + vehicle_configs[i].count
         THEN vehicle_configs[i]
         ELSE ConfigForId(i + 1, current_id + vehicle_configs[i].count, vehicle_id)

_get_vehicle_config_for_id(vehicle_id) == ConfigForId(1, 0, vehicle_id)

\* next((v.service_time_minutes for v in self.vehicle_configs if v.enabled), 15) * 60
base_service_time ==
    (IF FirstEnabled = 0 THEN 15 ELSE vehicle_configs[FirstEnabled].service_time_minutes) * 60

\* data['vehicle_...'][vehicle_id] of _create_data_model
vehicle_capacity(v) == vehicle_configs[ExpandVehicles(1)[v + 1]].capacity * 100

vehicle_max_distance(v) ==
    LET vc == vehicle_configs[ExpandVehicles(1)[v + 1]]
    IN  IF vc.max_distance_km # 0 THEN vc.max_distance_km * 1000 ELSE 999999999

vehicle_max_stops(v) ==
    LET vc == vehicle_configs[ExpandVehicles(1)[v + 1]]
    IN  IF vc.max_customers_per_route # 0 THEN vc.max_customers_per_route
        ELSE num_customers + 1

vehicle_max_time(v) == vehicle_configs[ExpandVehicles(1)[v + 1]].max_time_hours * 3600

vehicle_start(v) == _get_depot_index_for_vehicle(vehicle_configs[ExpandVehicles(1)[v + 1]])

vehicle_end(v) == _get_depot_index_for_vehicle(vehicle_configs[ExpandVehicles(1)[v + 1]])

\* the matrix node of the k-th customer (k from 1)
CustomerNode(k) == num_depots + k - 1

\* the nodes of vehicle v's route: its depot, the customers, its depot
Chain(v, route) ==
    <<vehicle_start(v)>> \o [i \in 1..Len(route) |-> CustomerNode(route[i])]
                         \o <<vehicle_start(v)>>

RECURSIVE DemandOf(_)
DemandOf(route) ==
    IF route = <<>> THEN 0
    ELSE solver_customers[Head(route)].volume * 100 + DemandOf(Tail(route))

\* the Time dimension's transit along the route: travel, and the service time on
\* leaving each customer
TimeTransit(v, route) ==
    PathSum(distance_matrix.durations, Chain(v, route)) + Len(route) * base_service_time

(***************************************************************************)
(* The routing solver (OR-Tools) as a black box: it returns no assignment, *)
(* or one that meets the dimensions the model registered, with an          *)
(* objective value of its own.                                             *)
(***************************************************************************)
InsertAt(seq, i, x) == SubSeq(seq, 1, i) \o <<x>> \o SubSeq(seq, i + 1, Len(seq))

\* every way to put some of the customers 1..n on the vehicles' routes, each once
RECURSIVE Assignments(_)
Assignments(n) ==
    IF n = 0 THEN {[v \in VehicleIds |-> <<>>]}
    ELSE LET prev == Assignments(n - 1)
         IN  prev \cup
             UNION {UNION {{[a EXCEPT ![v] = InsertAt(a[v], i, n)] : i \in 0..Len(a[v])}
                           : v \in VehicleIds}
                    : a \in prev}

Served(a) == UNION {{a[v][i] : i \in 1..Len(a[v])} : v \in VehicleIds}

\* solve(): Capacity, Distance, Stops and Time, each with the vehicle's own maximum
MeetsFullDimensions(a) ==
    \A v \in VehicleIds :
        /\ DemandOf(a[v]) <= vehicle_capacity(v)
        /\ PathSum(distance_matrix.distances, Chain(v, a[v])) <= vehicle_max_distance(v)
        /\ Len(a[v]) <= vehicle_max_stops(v)
        /\ TimeTransit(v, a[v]) <= vehicle_max_time(v)

\* solve_simple(): the Capacity dimension only, and no disjunction: every node is visited
MeetsSimpleDimensions(a) ==
    /\ Served(a) = 1..num_customers
    /\ \A v \in VehicleIds : DemandOf(a[v]) <= vehicle_capacity(v)

\* the full model's arc costs (distances with discounts, multipliers and drop
\* penalties) are left open: the objective is one of these values
ObjectiveValues == {10, 20}

\* the simple model's arc cost is the distance and it has no penalty
SimpleObjective(a) ==
    LET RECURSIVE Total(_)
        Total(v) == IF v >= num_vehicles THEN 0
                    ELSE PathSum(distance_matrix.distances, <<0>> \o a[v] \o <<0>>)
                         + Total(v + 1)
    IN  Total(0)

\* time_slack: the Time dimension does not fix the start cumul to zero, so the end
\* cumul the solver reports is the transit, or anything up to the vehicle's maximum
SolverOutcomes(simple) ==
    IF simple
    THEN {[routes |-> a, objective |-> SimpleObjective(a), time_slack |-> FALSE] :
             a \in {x \in Assignments(num_customers) : MeetsSimpleDimensions(x)}}
    ELSE {[routes |-> a, objective |-> o, time_slack |-> b] :
             a \in {x \in Assignments(num_customers) : MeetsFullDimensions(x)},
             o \in ObjectiveValues, b \in BOOLEAN}

(***************************************************************************)
(* ORToolsSolver: extraction of the solution                               *)
(***************************************************************************)
Route(type, id, cs, depot, dist, time, feasible) ==
    [vehicle_type |-> type, vehicle_id |-> id, customers |-> cs,
     depot_location |-> depot, total_distance_m |-> dist, total_time_s |-> time,
     total_volume |-> SumVolume(cs), is_feasible |-> feasible]

\* float('inf')
Infinity == 999999999

\* a variant whose solution is marked feasible
_create_empty_solution_Feasible ==
    [routes |-> <<>>, dropped_customers |-> <<>>, total_distance_m |-> 0,
     total_time_s |-> 0, total_vehicles_used |-> 0, fitness_score |-> Infinity,
     is_feasible |-> TRUE, total_served_volume |-> 0]

_create_empty_solution ==
    [routes |-> <<>>, dropped_customers |-> <<>>, total_distance_m |-> 0,
     total_time_s |-> 0, total_vehicles_used |-> 0, fitness_score |-> Infinity,
     is_feasible |-> FALSE, total_served_volume |-> 0]

RECURSIVE SumRouteVolume(_)
SumRouteVolume(routes) ==
    IF routes = <<>> THEN 0 ELSE Head(routes).total_volume + SumRouteVolume(Tail(routes))

RECURSIVE SumRouteDistance(_)
SumRouteDistance(routes) ==
    IF routes = <<>> THEN 0
    ELSE Head(routes).total_distance_m + SumRouteDistance(Tail(routes))

RECURSIVE SumRouteTime(_)
SumRouteTime(routes) ==
    IF routes = <<>> THEN 0 ELSE Head(routes).total_time_s + SumRouteTime(Tail(routes))

\* the walk along a vehicle's chain (the nodes up to the end node, then the end node):
\* at most max_iterations nodes are read; each customer node read joins the route and
\* the serviced set, and the arc that leaves it is added to the distance
RECURSIVE WalkChain(_, _, _, _, _)
WalkChain(chain, i, max_iterations, first_customer_node, acc) ==
    IF i >= Len(chain) \/ i > max_iterations THEN acc
    ELSE LET node_index     == chain[i]
             customer_index == node_index - first_customer_node
             is_customer    == /\ node_index >= first_customer_node
                               /\ 0 <= customer_index
                               /\ customer_index < num_customers
         IN  WalkChain(chain, i + 1, max_iterations, first_customer_node,
                 [customers |-> IF is_customer
                                THEN Append(acc.customers, solver_customers[customer_index + 1])
                                ELSE acc.customers,
                  serviced  |-> IF is_customer
                                THEN acc.serviced \cup {customer_index}
                                ELSE acc.serviced,
                  distance  |-> acc.distance
                                + distance_matrix.distances[chain[i]][chain[i + 1]]])

EmptyWalk == [customers |-> <<>>, serviced |-> {}, distance |-> 0]

\* _extract_solution: the route of one vehicle, before any reconfiguration
ExtractRoute(vehicle_id, outcome) ==
    LET vehicle_config == _get_vehicle_config_for_id(vehicle_id)
        walk == WalkChain(Chain(vehicle_id, outcome.routes[vehicle_id]), 1,
                          num_customers + 10, num_depots, EmptyWalk)
        transit == TimeTransit(vehicle_id, outcome.routes[vehicle_id])
        route_time_seconds ==
            IF outcome.time_slack THEN vehicle_max_time(vehicle_id) ELSE transit
        volume == SumVolume(walk.customers)
        over_distance == /\ vehicle_config.max_distance_km # 0
                         /\ walk.distance > vehicle_config.max_distance_km * 1000
        over_capacity == volume > vehicle_config.capacity
        over_stops == /\ vehicle_config.max_customers_per_route # 0
                      /\ Len(walk.customers) > vehicle_config.max_customers_per_route
        over_time == route_time_seconds > vehicle_config.max_time_hours * 3600 + 60
    IN  [walk  |-> walk,
         route |-> Route(vehicle_config.vehicle_type, vehicle_id, walk.customers,
                         unique_depots[vehicle_start(vehicle_id) + 1],
                         walk.distance, route_time_seconds,
                         ~(over_distance \/ over_capacity \/ over_stops \/ over_time))]

\* the routes of the vehicles from vehicle_id on, in vehicle order; a vehicle with no
\* customer yields no route
RECURSIVE ExtractRoutes(_, _)
ExtractRoutes(vehicle_id, outcome) ==
    IF vehicle_id >= num_vehicles THEN <<>>
    ELSE LET r == ExtractRoute(vehicle_id, outcome)
         IN  (IF r.walk.customers # <<>> THEN <<r.route>> ELSE <<>>)
             \o ExtractRoutes(vehicle_id + 1, outcome)

ServicedIndices(outcome) ==
    UNION {ExtractRoute(v, outcome).walk.serviced : v \in VehicleIds}

(***************************************************************************)
(* ORToolsSolver: the final reconfiguration of the routes from the depot   *)
(***************************************************************************)
\* len(self.unique_depots) + self.customers.index(customer)
MatrixIndexOf(customer) == num_depots + IndexOf(solver_customers, customer)

\* a variant that keeps the last of equally close customers (a comparison with <=)
ClosestIndex_LastOfTies(current_node, remaining) ==
    CHOOSE i \in 1..Len(remaining) :
        LET d(k) == distance_matrix.distances[current_node][MatrixIndexOf(remaining[k])]
        IN  /\ \A k \in 1..Len(remaining) : d(i) <= d(k)
            /\ \A k \in (i + 1)..Len(remaining) : d(k) > d(i)

\* the position in remaining of the customer closest to current_node; of equally
\* close customers the first one (the comparison is a strict <)
ClosestIndex(current_node, remaining) ==
    CHOOSE i \in 1..Len(remaining) :
        LET d(k) == distance_matrix.distances[current_node][MatrixIndexOf(remaining[k])]
        IN  /\ \A k \in 1..Len(remaining) : d(i) <= d(k)
            /\ \A k \in 1..(i - 1) : d(k) > d(i)

RemoveAt(seq, i) == SubSeq(seq, 1, i - 1) \o SubSeq(seq, i + 1, Len(seq))

RECURSIVE NearestNeighbourOrder(_, _)
NearestNeighbourOrder(current_node, remaining) ==
    IF remaining = <<>> THEN <<>>
    ELSE LET closest_index == ClosestIndex(current_node, remaining)
             closest_customer == remaining[closest_index]
         IN  <<closest_customer>>
             \o NearestNeighbourOrder(MatrixIndexOf(closest_customer),
                                      RemoveAt(remaining, closest_index))

\* a variant that loses the customer visited last
_optimize_route_from_depot_Losing(route_customers) ==
    LET order == NearestNeighbourOrder(0, route_customers)
    IN  IF Len(order) > 1 THEN SubSeq(order, 1, Len(order) - 1) ELSE order

\* depot_index = 0: always the main depot
_optimize_route_from_depot(route_customers) == NearestNeighbourOrder(0, route_customers)

\* depot 0, the customers in order, depot 0
DepotChain(route_customers) ==
    <<0>> \o [i \in 1..Len(route_customers) |-> MatrixIndexOf(route_customers[i])] \o <<0>>

\* metres and seconds (the code divides them into km and minutes on return)
_calculate_route_from_depot(route_customers) ==
    IF route_customers = <<>> THEN [distance |-> 0, time |-> 0]
    ELSE [distance |-> PathSum(distance_matrix.distances, DepotChain(route_customers)),
          time     |-> PathSum(distance_matrix.durations, DepotChain(route_customers))
                       + Len(route_customers) * base_service_time]

\* a variant that does not look at the distance
_validate_reconfigured_route_NoDistance(route, vehicle_config) ==
    /\ ~(route.total_volume > vehicle_config.capacity)
    /\ ~(route.total_time_s > vehicle_config.max_time_hours * 3600)
    /\ ~(/\ vehicle_config.max_customers_per_route # 0
         /\ Len(route.customers) > vehicle_config.max_customers_per_route)

_validate_reconfigured_route(route, vehicle_config) ==
    /\ ~(route.total_volume > vehicle_config.capacity)
    /\ ~(route.total_time_s > vehicle_config.max_time_hours * 3600)
    /\ ~(/\ vehicle_config.max_distance_km # 0
         /\ route.total_distance_m > vehicle_config.max_distance_km * 1000)
    /\ ~(/\ vehicle_config.max_customers_per_route # 0
         /\ Len(route.customers) > vehicle_config.max_customers_per_route)

ReconfigureRoute(route) ==
    LET optimized_customers == _optimize_route_from_depot(route.customers)
        new == _calculate_route_from_depot(optimized_customers)
        reconfigured_route ==
            Route(route.vehicle_type, route.vehicle_id, optimized_customers,
                  unique_depots[1], new.distance, new.time, TRUE)
    IN  [reconfigured_route EXCEPT !.is_feasible =
            _validate_reconfigured_route(reconfigured_route,
                                         _get_vehicle_config_for_id(route.vehicle_id))]

RECURSIVE _reconfigure_routes_from_depot(_)
_reconfigure_routes_from_depot(routes) ==
    IF routes = <<>> THEN <<>>
    ELSE (IF Head(routes).customers = <<>> THEN <<>> ELSE <<ReconfigureRoute(Head(routes))>>)
         \o _reconfigure_routes_from_depot(Tail(routes))

FinalRoutes(routes) ==
    IF cvrp_config.enable_final_depot_reconfiguration
    THEN _reconfigure_routes_from_depot(routes)
    ELSE routes

(***************************************************************************)
(* ORToolsSolver: the solutions                                            *)
(***************************************************************************)
\* [self.customers[i] for i in all_customer_indices - all_serviced_customer_indices]
RECURSIVE CustomersAt(_)
CustomersAt(indices) ==
    IF indices = <<>> THEN <<>>
    ELSE <<solver_customers[Head(indices) + 1]>> \o CustomersAt(Tail(indices))

\* a variant that reports every customer as dropped
DroppedCustomers_All(serviced) == solver_customers

DroppedCustomers(serviced) == CustomersAt(SortedSeq((0..(num_customers - 1)) \ serviced))

\* list.sort(key=volume, reverse=True): stable, the larger volume first
RECURSIVE InsertByVolumeDesc(_, _)
InsertByVolumeDesc(c, sorted) ==
    IF sorted = <<>> THEN <<c>>
    ELSE IF Head(sorted).volume < c.volume THEN <<c>> \o sorted
    ELSE <<Head(sorted)>> \o InsertByVolumeDesc(c, Tail(sorted))

RECURSIVE SortedByVolumeDesc(_)
SortedByVolumeDesc(cs) ==
    IF cs = <<>> THEN <<>>
    ELSE InsertByVolumeDesc(cs[Len(cs)], SortedByVolumeDesc(SubSeq(cs, 1, Len(cs) - 1)))

AllFeasible(routes) == \A i \in 1..Len(routes) : routes[i].is_feasible

_extract_solution(outcome) ==
    LET extracted == ExtractRoutes(0, outcome)
        routes == FinalRoutes(extracted)
        dropped_customers == SortedByVolumeDesc(DroppedCustomers(ServicedIndices(outcome)))
    IN  [routes |-> routes, dropped_customers |-> dropped_customers,
         total_distance_m |-> SumRouteDistance(extracted),
         total_time_s |-> SumRouteTime(extracted),
         total_vehicles_used |-> Len(routes), fitness_score |-> outcome.objective,
         is_feasible |-> AllFeasible(routes) /\ dropped_customers = <<>>,
         total_served_volume |-> SumRouteVolume(routes)]

\* _extract_simple_solution: one depot, node k is the k-th customer; the time is the
\* distance at 40 km/h plus the vehicle type's service time for each customer
ExtractSimpleRoute(vehicle_id, outcome) ==
    LET vehicle_config == _get_vehicle_config_for_id(vehicle_id)
        chain == <<0>> \o outcome.routes[vehicle_id] \o <<0>>
        walk == WalkChain(chain, 1, Len(chain), 1, EmptyWalk)
        route_time_seconds ==
            (walk.distance * 9) \div 100
            + Len(walk.customers) * vehicle_config.service_time_minutes * 60
    IN  [walk  |-> walk,
         route |-> Route(vehicle_config.vehicle_type, vehicle_id, walk.customers,
                         unique_depots[1], walk.distance, route_time_seconds, TRUE)]

RECURSIVE ExtractSimpleRoutes(_, _)
ExtractSimpleRoutes(vehicle_id, outcome) ==
    IF vehicle_id >= num_vehicles THEN <<>>
    ELSE LET r == ExtractSimpleRoute(vehicle_id, outcome)
         IN  (IF r.walk.customers # <<>> THEN <<r.route>> ELSE <<>>)
             \o ExtractSimpleRoutes(vehicle_id + 1, outcome)

SimpleServicedIndices(outcome) ==
    UNION {ExtractSimpleRoute(v, outcome).walk.serviced : v \in VehicleIds}

_extract_simple_solution(outcome) ==
    LET extracted == ExtractSimpleRoutes(0, outcome)
        routes == FinalRoutes(extracted)
    IN  [routes |-> routes,
         dropped_customers |-> DroppedCustomers(SimpleServicedIndices(outcome)),
         total_distance_m |-> SumRouteDistance(extracted),
         total_time_s |-> SumRouteTime(routes),
         total_vehicles_used |-> Len(routes), fitness_score |-> outcome.objective,
         is_feasible |-> TRUE,
         total_served_volume |-> SumRouteVolume(routes)]

\* both solve() and solve_simple() set these two, whatever the configuration says
HardCodedSearchParameters ==
    [first_solution_strategy |-> "PATH_CHEAPEST_ARC",
     local_search_metaheuristic |-> "GUIDED_LOCAL_SEARCH"]

Run(extracted, routes_before, solution) ==
    [search_parameters |-> HardCodedSearchParameters, extracted |-> extracted,
     extracted_routes |-> routes_before, solution |-> solution]

EmptyRun == Run(FALSE, <<>>, _create_empty_solution)

\* ORToolsSolver.solve: the runs it can make
solve ==
    {EmptyRun} \cup
    {Run(TRUE, ExtractRoutes(0, o), _extract_solution(o)) : o \in SolverOutcomes(FALSE)}

\* ORToolsSolver.solve_simple: its data model has one depot and a demand for that depot
\* and each customer; with more depots the matrix has nodes beyond the demands and the
\* demand callback raises, which ends in the empty solution
solve_simple ==
    {EmptyRun} \cup
    (IF num_depots > 1 THEN {}
     ELSE {Run(TRUE, ExtractSimpleRoutes(0, o), _extract_simple_solution(o)) :
              o \in SolverOutcomes(TRUE)})

\* CVRPSolver.solve; the configurations of a race differ from cvrp_config in the two
\* strategy fields only
CVRPSolver_solve(config) == IF config.use_simple_solver THEN solve_simple ELSE solve

\* a variant that returns whatever the solver returned
solve_cvrp_worker_Unfiltered(run) == run.solution

\* solve_cvrp_worker: a solution without routes is no solution
solve_cvrp_worker(run) ==
    IF run.solution.routes # <<>> THEN run.solution ELSE NoSolution

(***************************************************************************)
(* prepare_data: allocate_customers, then optimize_allocation              *)
(***************************************************************************)
RECURSIVE CustomerLists(_)
CustomerLists(n) ==
    IF n = 0 THEN {<<>>}
    ELSE CustomerLists(n - 1) \cup
         {Append(cs, [id |-> n, volume |-> v]) :
              cs \in {l \in CustomerLists(n - 1) : Len(l) = n - 1}, v \in Volumes}

VehicleConfig(type, cap, cnt, en) ==
    [vehicle_type |-> type, capacity |-> cap, count |-> cnt, enabled |-> en,
     max_distance_km |-> 0, max_time_hours |-> 8, service_time_minutes |-> 15,
     start_location |-> NoLocation, max_customers_per_route |-> 0]

AllocFleets ==
    { <<VehicleConfig("internal_bus", 4, 2, TRUE), VehicleConfig("center_bus", 3, 1, TRUE)>>,
      <<VehicleConfig("internal_bus", 4, 1, TRUE), VehicleConfig("external_bus", 6, 1, FALSE)>>,
      <<VehicleConfig("internal_bus", 4, 1, FALSE)>> }

WarehouseConfigs ==
    [enable_warehouse : BOOLEAN, sort_by_volume : BOOLEAN,
     move_largest_to_warehouse : BOOLEAN, large_request_threshold : {30, 60},
     ortools_target_utilization : {80}, ortools_safe_utilization : {75}]

InitAlloc ==
    /\ pc = "start"
    /\ customers \in CustomerLists(MaxCustomers)
    /\ customers # <<>>
    /\ warehouse_config \in WarehouseConfigs
    /\ vehicle_configs \in AllocFleets
    /\ allocation = NoAllocation
    /\ cvrp_config = DefaultCVRPConfig
    /\ depot_location = 2
    /\ cpu_cores = 1
    /\ distance_matrix = NoMatrix
    /\ solver_configs = <<>>
    /\ solver_runs = <<>>
    /\ results = <<>>
    /\ best_solution = NoSolution
    /\ osrm_config = DefaultOSRMConfig
    /\ matrix_calls = 0
    /\ central_cache = {}
    /\ engine_requests = 0
    /\ engine_epoch = 0
    /\ callers = <<>>
    /\ builds = {}
    /\ location_config = DefaultLocationConfig
    /\ routing = NoRouting
    /\ extraction = NoExtraction

AllocateCustomers ==
    /\ pc = "start"
    /\ IF AllocationRaises
       THEN pc' = "failed" /\ allocation' = NoAllocation
       ELSE pc' = "allocated" /\ allocation' = allocate_customers
    /\ UNCHANGED <<customers, distance_matrix, configVars, routing, extraction, raceVars, matrixVars>>

OptimizeAllocation ==
    /\ pc = "allocated"
    /\ pc' = "optimized"
    /\ allocation' = optimize_allocation(allocation)
    /\ UNCHANGED <<customers, distance_matrix, configVars, routing, extraction, raceVars, matrixVars>>

NextAlloc == AllocateCustomers \/ OptimizeAllocation

SpecAlloc == InitAlloc /\ [][NextAlloc]_vars

(***************************************************************************)
(* Pre-allocation: properties                                              *)
(***************************************************************************)
Allocated == pc \in {"allocated", "optimized"}

AllocatedList == allocation.vehicle_customers \o allocation.warehouse_customers

InVehicles(c) ==
    \E i \in 1..Len(allocation.vehicle_customers) : allocation.vehicle_customers[i] = c

InWarehouse(c) ==
    \E i \in 1..Len(allocation.warehouse_customers) : allocation.warehouse_customers[i] = c

\* C1: after allocate_customers and after optimize_allocation every input customer is
\* in exactly one of vehicle_customers and warehouse_customers, the two lengths add up
\* to the number of customers and the two volumes add up to the input volume.
C1_Bipartition ==
    Allocated =>
        /\ Len(allocation.vehicle_customers) + Len(allocation.warehouse_customers)
               = Len(customers)
        /\ \A i \in 1..Len(customers) :
               /\ Occurrences(AllocatedList, customers[i].id) = 1
               /\ InVehicles(customers[i]) # InWarehouse(customers[i])
        /\ allocation.total_vehicle_volume + allocation.warehouse_volume
               = SumVolume(customers)
        /\ allocation.total_vehicle_volume = SumVolume(allocation.vehicle_customers)
        /\ allocation.warehouse_volume = SumVolume(allocation.warehouse_customers)

\* a run where step 3 deferred a customer and optimize_allocation moved another back
C1_Witness ==
    /\ pc = "optimized"
    /\ warehouse_config.enable_warehouse
    /\ allocation # allocate_customers
    /\ allocation.warehouse_customers # <<>>
    /\ \E i \in 1..Len(allocation.warehouse_customers) :
           /\ ~OverThreshold(allocation.warehouse_customers[i])
           /\ ~OverCapacity(allocation.warehouse_customers[i])

\* C2: in the allocation handed to the solver (allocate_customers, then
\* optimize_allocation, warehouse enabled) no customer whose volume exceeds the largest
\* capacity of an enabled vehicle type is in vehicle_customers: each is in the warehouse.
C2_OversizeStaysInWarehouse ==
    (pc = "optimized" /\ warehouse_config.enable_warehouse) =>
        \A i \in 1..Len(customers) :
            OverCapacity(customers[i]) =>
                (InWarehouse(customers[i]) /\ ~InVehicles(customers[i]))

\* C3: with the warehouse enabled the partition follows the threshold rule alone: a
\* customer is in warehouse_customers iff its volume exceeds max_single_capacity, or
\* move_largest_to_warehouse is set and its volume exceeds the large-request threshold.
C3_ThresholdRule ==
    (pc = "allocated" /\ warehouse_config.enable_warehouse) =>
        \A i \in 1..Len(customers) :
            InWarehouse(customers[i]) <=>
                \/ OverCapacity(customers[i])
                \/ (warehouse_config.move_largest_to_warehouse /\ OverThreshold(customers[i]))

(***************************************************************************)
(* main: the distance matrix, then one solve or a race of workers          *)
(***************************************************************************)
\* the (strategy, metaheuristic) pairs in the order of the two nested loops
RECURSIVE StrategyPairs(_, _, _, _)
StrategyPairs(strategies, metaheuristics, i, j) ==
    IF i > Len(strategies) THEN <<>>
    ELSE IF j > Len(metaheuristics) THEN StrategyPairs(strategies, metaheuristics, i + 1, 1)
    ELSE <<[s |-> strategies[i], m |-> metaheuristics[j]]>>
         \o StrategyPairs(strategies, metaheuristics, i, j + 1)

InSeq(x, seq) == \E i \in 1..Len(seq) : seq[i] = x

\* a variant that appends every pair of the product
RECURSIVE FillConfigs_NoDedupe(_, _, _, _)
FillConfigs_NoDedupe(base, pairs, num_workers, configs) ==
    IF pairs = <<>> \/ Len(configs) >= num_workers THEN configs
    ELSE FillConfigs_NoDedupe(base, Tail(pairs), num_workers,
                              Append(configs,
                                     [base EXCEPT
                                         !.first_solution_strategy = Head(pairs).s,
                                         !.local_search_metaheuristic = Head(pairs).m]))

RECURSIVE FillConfigs(_, _, _, _)
FillConfigs(base, pairs, num_workers, configs) ==
    IF pairs = <<>> \/ Len(configs) >= num_workers THEN configs
    ELSE LET new_config ==
                 [base EXCEPT !.first_solution_strategy = Head(pairs).s,
                              !.local_search_metaheuristic = Head(pairs).m]
         IN  FillConfigs(base, Tail(pairs), num_workers,
                         IF InSeq(new_config, configs) THEN configs
                         ELSE Append(configs, new_config))

generate_solver_configs(base_cvrp_config, num_workers) ==
    LET configs ==
            FillConfigs(base_cvrp_config,
                        StrategyPairs(base_cvrp_config.parallel_first_solution_strategies,
                                      base_cvrp_config.parallel_local_search_metaheuristics,
                                      1, 1),
                        num_workers, <<>>)
    IN  IF Len(configs) < num_workers /\ ~InSeq(base_cvrp_config, configs)
        THEN Append(configs, base_cvrp_config)
        ELSE configs

Parallel == cvrp_config.enable_parallel_solving /\ cpu_cores > 1

NumWorkers ==
    IF cvrp_config.num_workers = -1
    THEN (IF cpu_cores - 1 > 1 THEN cpu_cores - 1 ELSE 1)
    ELSE cvrp_config.num_workers

(***************************************************************************)
(* The distance-matrix service: the central cache and the chunked build    *)
(***************************************************************************)
\* the stored matrices of a location list: the order of the locations is part of the key
CacheEntries(cache, locations) == {m \in cache : m.locations = locations}

\* get_distance_matrix_from_central_cache: the stored matrix, or None
get_distance_matrix_from_central_cache(cache, locations) ==
    IF CacheEntries(cache, locations) = {} THEN NoMatrix
    ELSE CHOOSE m \in CacheEntries(cache, locations) : TRUE

\* a variant of the store that keeps nothing
Persist_Nothing(cache, matrix) == cache

\* the build stores its matrix under the key of its locations
Persist(cache, matrix) == (cache \ CacheEntries(cache, matrix.locations)) \cup {matrix}

Min(a, b) == IF a < b THEN a ELSE b

\* a variant that leaves out the last, shorter block
RECURSIVE ChunkStarts_WholeBlocks(_, _, _)
ChunkStarts_WholeBlocks(start, n, chunk_size) ==
    IF start + chunk_size > n THEN <<>>
    ELSE <<start>> \o ChunkStarts_WholeBlocks(start + chunk_size, n, chunk_size)

\* range(start, n, chunk_size)
RECURSIVE ChunkStarts(_, _, _)
ChunkStarts(start, n, chunk_size) ==
    IF start >= n THEN <<>>
    ELSE <<start>> \o ChunkStarts(start + chunk_size, n, chunk_size)

\* the rectangular chunks of the n x n grid, row block by row block
ChunkGrid(n, chunk_size) ==
    LET starts == ChunkStarts(0, n, chunk_size)
        side == Len(starts)
    IN  [k \in 1..(side * side) |->
            [i |-> starts[((k - 1) \div side) + 1], j |-> starts[((k - 1) % side) + 1]]]

\* the indices of one block: start .. min(start + chunk_size, n) - 1
Block(start, n, chunk_size) == start..(Min(start + chunk_size, n) - 1)

ChunkCells(chunk, n, chunk_size) ==
    Block(chunk.i, n, chunk_size) \X Block(chunk.j, n, chunk_size)

\* (clients + chunk_size - 1) // chunk_size, squared
total_chunks(clients, chunk_size) ==
    LET chunks_per_side == (clients + chunk_size - 1) \div chunk_size
    IN  chunks_per_side * chunks_per_side

\* what the routing engine answers for one pair of locations, rounded to integers; the
\* answer for two different locations changes with the road data
EngineDistance(a, b, epoch) == IF a = b THEN 0 ELSE Abs(a - b) * MetresPerUnit + epoch

EngineDuration(a, b, epoch) == IF a = b THEN 0 ELSE Abs(a - b) * SecondsPerUnit + epoch

Grid(n) == (0..(n - 1)) \X (0..(n - 1))

\* a build that has sent no request yet
NewBuild(owner, locations) ==
    [owner |-> owner, locations |-> locations, next |-> 1, requests |-> 0,
     distances |-> [cell \in {} |-> 0],
     durations |-> [cell \in {} |-> 0],
     fills |-> [cell \in Grid(Len(locations)) |-> 0]]

\* one table request: the cells of the next chunk are filled from the engine's answer
FillChunk(build, chunk_size, epoch) ==
    LET n == Len(build.locations)
        cells == ChunkCells(ChunkGrid(n, chunk_size)[build.next], n, chunk_size)
        from(cell) == build.locations[cell[1] + 1]
        to(cell) == build.locations[cell[2] + 1]
    IN  [build EXCEPT
            !.next = @ + 1,
            !.requests = @ + 1,
            !.distances = [cell \in (DOMAIN @) \cup cells |->
                              IF cell \in cells THEN EngineDistance(from(cell), to(cell), epoch)
                              ELSE @[cell]],
            !.durations = [cell \in (DOMAIN @) \cup cells |->
                              IF cell \in cells THEN EngineDuration(from(cell), to(cell), epoch)
                              ELSE @[cell]],
            !.fills = [cell \in Grid(n) |-> IF cell \in cells THEN @[cell] + 1 ELSE @[cell]]]

BuildComplete(build, chunk_size) ==
    build.next > Len(ChunkGrid(Len(build.locations), chunk_size))

\* the DistanceMatrix assembled from the cells of a build
Assemble(build) ==
    LET n == Len(build.locations)
    IN  [locations |-> build.locations,
         distances |-> [i \in 0..(n - 1) |-> [j \in 0..(n - 1) |-> build.distances[<<i, j>>]]],
         durations |-> [i \in 0..(n - 1) |-> [j \in 0..(n - 1) |-> build.durations[<<i, j>>]]]]

RECURSIVE RunBuild(_, _, _)
RunBuild(build, chunk_size, epoch) ==
    IF BuildComplete(build, chunk_size) THEN build
    ELSE RunBuild(FillChunk(build, chunk_size, epoch), chunk_size, epoch)

\* if not distance_matrix: sys.exit(1)
MainExits_Never(matrix) == FALSE

MainExits(matrix) == matrix = NoMatrix

\* get_distance_matrix, then main()'s test of what it returned: None without solver
\* customers; the central cache first, a build by the OSRM client only on a miss
GetDistanceMatrix ==
    /\ pc = "optimized"
    /\ matrix_calls' = matrix_calls + 1
    /\ IF solver_customers = <<>>
       THEN /\ distance_matrix' = NoMatrix
            /\ UNCHANGED <<central_cache, engine_requests>>
       ELSE LET cached == get_distance_matrix_from_central_cache(central_cache, all_locations)
                build == RunBuild(NewBuild(0, all_locations), osrm_config.chunk_size, engine_epoch)
            IN  IF cached # NoMatrix
                THEN /\ distance_matrix' = cached
                     /\ UNCHANGED <<central_cache, engine_requests>>
                ELSE \/ /\ distance_matrix' = Assemble(build)
                        /\ central_cache' = Persist(central_cache, Assemble(build))
                        /\ engine_requests' = engine_requests + build.requests
                     \/ /\ distance_matrix' = NoMatrix
                        /\ engine_requests' = engine_requests + 1
                        /\ UNCHANGED central_cache
    /\ pc' = IF MainExits(distance_matrix') THEN "exit" ELSE "matrix"
    /\ UNCHANGED <<customers, allocation, configVars, routing, extraction, raceVars, osrm_config, engine_epoch,
                   callers, builds>>

\* the else branch of main(): one call of solve_cvrp_worker with worker id 1
SingleSolve ==
    /\ pc = "matrix"
    /\ ~Parallel
    /\ \E run \in CVRPSolver_solve(cvrp_config) :
          /\ solver_runs' = <<run>>
          /\ results' = <<solve_cvrp_worker(run)>>
          /\ best_solution' = solve_cvrp_worker(run)
          /\ pc' = IF solve_cvrp_worker(run) = NoSolution THEN "exit" ELSE "done"
    /\ solver_configs' = <<cvrp_config>>
    /\ UNCHANGED <<customers, allocation, distance_matrix, configVars, routing, extraction, matrixVars>>

\* main() builds the worker arguments, worker i + 1 for configuration i
StartRace ==
    /\ pc = "matrix"
    /\ Parallel
    /\ solver_configs' = generate_solver_configs(cvrp_config, NumWorkers)
    /\ solver_runs' = [w \in 1..Len(solver_configs') |-> Pending]
    /\ results' = [w \in 1..Len(solver_configs') |-> Pending]
    /\ pc' = "racing"
    /\ UNCHANGED <<customers, allocation, distance_matrix, configVars, routing, extraction, best_solution,
                   matrixVars>>

\* solve_cvrp_worker in a process of the pool
WorkerSolve(w) ==
    /\ pc = "racing"
    /\ results[w] = Pending
    /\ \E run \in CVRPSolver_solve(solver_configs[w]) :
          /\ solver_runs' = [solver_runs EXCEPT ![w] = run]
          /\ results' = [results EXCEPT ![w] = solve_cvrp_worker(run)]
    /\ UNCHANGED <<pc, customers, allocation, distance_matrix, configVars, routing, extraction,
                   solver_configs, best_solution, matrixVars>>

\* sol.total_served_volume = sum(r.total_volume for r in sol.routes)
WithServedVolume(sol) == [sol EXCEPT !.total_served_volume = SumRouteVolume(sol.routes)]

RECURSIVE ValidSolutions(_)
ValidSolutions(rs) ==
    IF rs = <<>> THEN <<>>
    ELSE (IF Head(rs) # NoSolution THEN <<WithServedVolume(Head(rs))>> ELSE <<>>)
         \o ValidSolutions(Tail(rs))

\* a variant that takes the first valid solution
MaxByServedVolume_First(valid_solutions) == valid_solutions[1]

\* max(valid_solutions, key=...): of the solutions with the largest key, the first
MaxByServedVolume(valid_solutions) ==
    LET i == CHOOSE k \in 1..Len(valid_solutions) :
                 /\ \A j \in 1..Len(valid_solutions) :
                       valid_solutions[j].total_served_volume
                           <= valid_solutions[k].total_served_volume
                 /\ \A j \in 1..(k - 1) :
                       valid_solutions[j].total_served_volume
                           < valid_solutions[k].total_served_volume
    IN  valid_solutions[i]

\* pool.map has returned: every worker is done
SelectBest ==
    /\ pc = "racing"
    /\ \A w \in 1..Len(results) : results[w] # Pending
    /\ LET valid_solutions == ValidSolutions(results)
       IN  IF valid_solutions # <<>>
           THEN best_solution' = MaxByServedVolume(valid_solutions) /\ pc' = "done"
           ELSE best_solution' = NoSolution /\ pc' = "exit"
    /\ UNCHANGED <<customers, allocation, distance_matrix, configVars, routing, extraction,
                   solver_configs, solver_runs, results, matrixVars>>

(***************************************************************************)
(* The runs of main() that are explored                                    *)
(***************************************************************************)
Customer(id, volume, coordinates) ==
    [id |-> id, volume |-> volume, coordinates |-> coordinates]

\* customers 1, 2, 3 at the points 1, 3, 4 of the line; the main depot is at 2
SolverVolumes == {1, 3, 5}

RoutedCustomers ==
    {<<Customer(1, a, 1), Customer(2, b, 3), Customer(3, c, 4)>> :
         a \in {1}, b \in SolverVolumes, c \in {1, 3}}

\* for a race, customers 1 and 2 at the points 3 and 4
RacedCustomers ==
    {<<Customer(1, a, 3), Customer(2, b, 4)>> : a \in {1, 3}, b \in {1, 3}}

LimitedVehicle(type, cap, cnt, en, km, hours, start, stops) ==
    [VehicleConfig(type, cap, cnt, en) EXCEPT
        !.max_distance_km = km, !.max_time_hours = hours,
        !.start_location = start, !.max_customers_per_route = stops]

\* two buses with one hour each; two buses with one stop and 3 km each; a bus with
\* one stop, a disabled type, and a bus of 3 km that starts from its own depot at 5;
\* or a bus of the main depot and two buses that start from depots of their own, at
\* 5 and at 0
RoutedFleets ==
    { <<LimitedVehicle("internal_bus", 4, 2, TRUE, 0, 1, NoLocation, 0)>>,
      <<LimitedVehicle("internal_bus", 4, 2, TRUE, 3, 8, NoLocation, 1)>>,
      <<LimitedVehicle("internal_bus", 4, 1, TRUE, 0, 8, NoLocation, 1),
        LimitedVehicle("external_bus", 9, 1, FALSE, 0, 8, NoLocation, 0),
        LimitedVehicle("center_bus", 4, 1, TRUE, 3, 8, 5, 0)>>,
      <<LimitedVehicle("internal_bus", 4, 1, TRUE, 0, 8, NoLocation, 0),
        LimitedVehicle("center_bus", 4, 1, TRUE, 0, 8, 5, 0),
        LimitedVehicle("external_bus", 4, 1, TRUE, 0, 8, 0, 0)>> }

RacedFleet == <<LimitedVehicle("internal_bus", 4, 2, TRUE, 0, 1, NoLocation, 0)>>

SingleConfigs ==
    {[DefaultCVRPConfig EXCEPT !.use_simple_solver = s,
                               !.enable_final_depot_reconfiguration = r] :
         s \in BOOLEAN, r \in BOOLEAN}

RaceConfig(workers, simple, strategies, metaheuristics) ==
    [DefaultCVRPConfig EXCEPT !.enable_parallel_solving = TRUE,
                              !.num_workers = workers,
                              !.use_simple_solver = simple,
                              !.parallel_first_solution_strategies = strategies,
                              !.parallel_local_search_metaheuristics = metaheuristics]

Scenario(cs, fleet, cvrp, cores) ==
    [customers |-> cs, vehicle_configs |-> fleet, cvrp_config |-> cvrp, cpu_cores |-> cores]

SingleScenarios ==
    {Scenario(cs, fleet, cvrp, 1) :
         cs \in RoutedCustomers, fleet \in RoutedFleets, cvrp \in SingleConfigs}

\* two workers on two customers; all cores but one, three workers, on one customer;
\* a machine with one core, which does not race
RaceScenarios ==
    {Scenario(cs, RacedFleet,
              RaceConfig(2, s, <<"PATH_CHEAPEST_ARC", "SAVINGS">>,
                         <<"GUIDED_LOCAL_SEARCH", "GUIDED_LOCAL_SEARCH">>), 2) :
         cs \in RacedCustomers, s \in BOOLEAN}
    \cup
    {Scenario(<<Customer(1, 1, 3)>>, RacedFleet,
              RaceConfig(-1, FALSE, <<"SAVINGS">>,
                         <<"TABU_SEARCH", "GUIDED_LOCAL_SEARCH", "AUTOMATIC">>), 4),
     Scenario(<<Customer(1, 1, 3)>>, RacedFleet,
              RaceConfig(-1, FALSE, <<"SAVINGS">>, <<"TABU_SEARCH">>), 1)}

InitMain ==
    /\ pc = "start"
    /\ \E sc \in SingleScenarios \cup RaceScenarios :
          /\ customers = sc.customers
          /\ vehicle_configs = sc.vehicle_configs
          /\ cvrp_config = sc.cvrp_config
          /\ cpu_cores = sc.cpu_cores
    /\ warehouse_config = [enable_warehouse |-> FALSE, sort_by_volume |-> FALSE,
                           move_largest_to_warehouse |-> FALSE,
                           large_request_threshold |-> 60,
                           ortools_target_utilization |-> 80,
                           ortools_safe_utilization |-> 75]
    /\ allocation = NoAllocation
    /\ depot_location = 2
    /\ distance_matrix = NoMatrix
    /\ solver_configs = <<>>
    /\ solver_runs = <<>>
    /\ results = <<>>
    /\ best_solution = NoSolution
    /\ osrm_config = DefaultOSRMConfig
    /\ matrix_calls = 0
    /\ central_cache \in {{}, {MatrixFor(DepotListFor(vehicle_configs)
                                          \o CoordinatesOf(customers))}}
    /\ engine_requests = 0
    /\ engine_epoch = 0
    /\ callers = <<>>
    /\ builds = {}
    /\ location_config = DefaultLocationConfig
    /\ routing = NoRouting
    /\ extraction = NoExtraction

NextMain ==
    \/ AllocateCustomers
    \/ OptimizeAllocation
    \/ GetDistanceMatrix
    \/ SingleSolve
    \/ StartRace
    \/ \E w \in 1..Len(results) : WorkerSolve(w)
    \/ SelectBest

SpecMain == InitMain /\ [][NextMain]_vars

(***************************************************************************)
(* The race and the solutions: properties                                  *)
(***************************************************************************)
Raced == Parallel /\ pc \in {"done", "exit"}

ServedVolume(sol) == SumRouteVolume(sol.routes)

\* C4: in parallel mode the selected solution serves at least the volume of every
\* solution a worker returned, and a solution is selected whenever a worker returned one.
C4_SelectedHasMaxServedVolume ==
    Raced =>
        \A w \in 1..Len(results) :
            results[w] # NoSolution =>
                /\ best_solution # NoSolution
                /\ ServedVolume(best_solution) >= ServedVolume(results[w])

\* a race in which the first worker's solution serves less than a later worker's
C4_Witness ==
    /\ Raced
    /\ \E w \in 2..Len(results) :
          /\ results[1] # NoSolution
          /\ results[w] # NoSolution
          /\ ServedVolume(results[1]) < ServedVolume(results[w])

\* the order the tie-break is said to follow: objective, vehicles used, dropped
\* customers, worker id
TieBreakBefore(w, u) ==
    LET a == results[w]
        b == results[u]
    IN  \/ a.fitness_score < b.fitness_score
        \/ /\ a.fitness_score = b.fitness_score
           /\ \/ a.total_vehicles_used < b.total_vehicles_used
              \/ /\ a.total_vehicles_used = b.total_vehicles_used
                 /\ \/ Len(a.dropped_customers) < Len(b.dropped_customers)
                    \/ /\ Len(a.dropped_customers) = Len(b.dropped_customers)
                       /\ w <= u

Maximal(w) ==
    /\ results[w] # NoSolution
    /\ \A u \in 1..Len(results) :
          results[u] # NoSolution => ServedVolume(results[u]) <= ServedVolume(results[w])

\* C5: among the workers' solutions of maximal served volume the selected one is the
\* first by objective, then vehicles used, then dropped customers, then worker id.
C5_TieBreaks ==
    (Raced /\ best_solution # NoSolution) =>
        \E w \in 1..Len(results) :
            /\ Maximal(w)
            /\ best_solution = WithServedVolume(results[w])
            /\ \A u \in 1..Len(results) : Maximal(u) => TieBreakBefore(w, u)

FinishedRuns == {w \in 1..Len(solver_runs) : solver_runs[w] # Pending}

\* C6: every worker's solver searches with the first-solution strategy and the
\* metaheuristic of the configuration given to that worker.
C6_WorkerUsesItsStrategies ==
    \A w \in FinishedRuns :
        /\ solver_runs[w].search_parameters.first_solution_strategy
               = solver_configs[w].first_solution_strategy
        /\ solver_runs[w].search_parameters.local_search_metaheuristic
               = solver_configs[w].local_search_metaheuristic

\* C7: a solution extracted by the full or the simple solver is feasible exactly when
\* none of its routes is flagged infeasible and no customer is dropped.
C7_FeasibleIffRoutesAndDrops ==
    \A w \in FinishedRuns :
        solver_runs[w].extracted =>
            (solver_runs[w].solution.is_feasible
                <=> /\ AllFeasible(solver_runs[w].solution.routes)
                    /\ solver_runs[w].solution.dropped_customers = <<>>)

WithinLimits(route) ==
    LET vehicle_config == _get_vehicle_config_for_id(route.vehicle_id)
    IN  /\ route.total_volume <= vehicle_config.capacity
        /\ vehicle_config.max_distance_km # 0 =>
               route.total_distance_m <= vehicle_config.max_distance_km * 1000
        /\ vehicle_config.max_customers_per_route # 0 =>
               Len(route.customers) <= vehicle_config.max_customers_per_route
        /\ route.total_time_s <= vehicle_config.max_time_hours * 3600 + 60

\* C8: in a returned solution that is feasible every route is within the capacity, the
\* distance, the stops and the time (plus one minute) of its vehicle's type.
C8_FeasibleWithinLimits ==
    \A w \in FinishedRuns :
        solver_runs[w].solution.is_feasible =>
            \A i \in 1..Len(solver_runs[w].solution.routes) :
                WithinLimits(solver_runs[w].solution.routes[i])

RECURSIVE RouteCustomers(_)
RouteCustomers(routes) ==
    IF routes = <<>> THEN <<>> ELSE Head(routes).customers \o RouteCustomers(Tail(routes))

\* C9: in an extracted solution every customer of the solver is on exactly one route
\* once or dropped once, never both and never neither, and nobody else is.
C9_ServedAndDroppedPartition ==
    \A w \in FinishedRuns :
        solver_runs[w].extracted =>
            LET served == RouteCustomers(solver_runs[w].solution.routes)
                dropped == solver_runs[w].solution.dropped_customers
            IN  /\ Len(served) + Len(dropped) = num_customers
                /\ \A k \in 1..num_customers :
                       Occurrences(served, solver_customers[k].id)
                           + Occurrences(dropped, solver_customers[k].id) = 1

\* an extracted solution with a customer on a route and a customer dropped
C9_Witness ==
    \E w \in FinishedRuns :
        /\ solver_runs[w].extracted
        /\ solver_runs[w].solution.routes # <<>>
        /\ solver_runs[w].solution.dropped_customers # <<>>

\* C10: the reconfiguration returns one route per route it is given, of the same
\* vehicle type and id, with the same customers in some order.
C10_ReconfigurationPermutes ==
    \A w \in FinishedRuns :
        (solver_runs[w].extracted /\ cvrp_config.enable_final_depot_reconfiguration) =>
            LET before == solver_runs[w].extracted_routes
                after  == solver_runs[w].solution.routes
            IN  /\ Len(after) = Len(before)
                /\ \A i \in 1..Len(before) :
                       /\ after[i].vehicle_type = before[i].vehicle_type
                       /\ after[i].vehicle_id = before[i].vehicle_id
                       /\ Len(after[i].customers) = Len(before[i].customers)
                       /\ \A k \in 1..num_customers :
                              Occurrences(after[i].customers, solver_customers[k].id)
                                  = Occurrences(before[i].customers, solver_customers[k].id)

\* a reconfiguration of two routes that changed the order of the customers of one
C10_Witness ==
    \E w \in FinishedRuns :
        /\ solver_runs[w].extracted
        /\ cvrp_config.enable_final_depot_reconfiguration
        /\ Len(solver_runs[w].extracted_routes) = 2
        /\ \E i \in 1..2 :
              solver_runs[w].solution.routes[i].customers
                  # solver_runs[w].extracted_routes[i].customers

(***************************************************************************)
(* The depots: properties                                                  *)
(***************************************************************************)
\* the position (0-based) of the configured main depot in the depot list
MainDepotIndex == IndexOf(unique_depots, depot_location)

MainDepotChain(route_customers) ==
    <<MainDepotIndex>>
    \o [i \in 1..Len(route_customers) |-> MatrixIndexOf(route_customers[i])]
    \o <<MainDepotIndex>>

\* C11: with the final reconfiguration enabled every route of an extracted solution has
\* the configured main depot as its depot_location, and its distance and time are those
\* of the path main depot, customers, main depot in the matrix.
C11_RehomedToMainDepot ==
    \A w \in FinishedRuns :
        (solver_runs[w].extracted /\ cvrp_config.enable_final_depot_reconfiguration) =>
            \A i \in 1..Len(solver_runs[w].solution.routes) :
                LET route == solver_runs[w].solution.routes[i]
                IN  /\ route.depot_location = depot_location
                    /\ route.total_distance_m
                           = PathSum(distance_matrix.distances, MainDepotChain(route.customers))
                    /\ route.total_time_s
                           = PathSum(distance_matrix.durations, MainDepotChain(route.customers))
                             + Len(route.customers) * base_service_time

\* the depot a vehicle is said to use: its type's override start location when that is
\* in the depot list, the main depot otherwise
ExpectedDepot(v) ==
    LET vc == vehicle_configs[ExpandVehicles(1)[v + 1]]
    IN  IF vc.start_location # NoLocation /\ InSeq(vc.start_location, unique_depots)
        THEN vc.start_location
        ELSE depot_location

\* C12: every vehicle instance starts and ends at the same depot index, and that index
\* denotes its type's override start location if it has one in the depot list and the
\* main depot otherwise.
C12_StartEndDepot ==
    \A v \in VehicleIds :
        /\ vehicle_start(v) = vehicle_end(v)
        /\ unique_depots[vehicle_start(v) + 1] = ExpectedDepot(v)

\* _create_simple_data_model and _extract_simple_solution: node 0 is the depot and node
\* k the k-th customer (k from 1)
SimpleCustomerNode(k) == k

\* the node the solver in use gives to the k-th customer
SolverNode(k) ==
    IF cvrp_config.use_simple_solver THEN SimpleCustomerNode(k) ELSE CustomerNode(k)

\* C13: once the matrix is built, depot index d of the solver is the depot of matrix
\* row d, and the solver's node of the k-th customer is the matrix row that was built
\* from that customer's coordinates.
C13_MatrixAndSolverNumberingAgree ==
    distance_matrix # NoMatrix =>
        /\ \A d \in 0..(num_depots - 1) :
               distance_matrix.locations[d + 1] = unique_depots[d + 1]
        /\ \A k \in 1..num_customers :
               /\ SolverNode(k) + 1 <= Len(distance_matrix.locations)
               /\ distance_matrix.locations[SolverNode(k) + 1]
                      = solver_customers[k].coordinates

RECURSIVE Reorderings(_)
Reorderings(seq) ==
    IF seq = <<>> THEN {<<>>}
    ELSE UNION {{<<seq[i]>> \o p : p \in Reorderings(RemoveAt(seq, i))} : i \in 1..Len(seq)}

\* C14: the depot list of the fleet is the depot list of every reordering of its
\* vehicle types, so each depot coordinate has the same index whatever the order.
C14_DepotListCanonical ==
    \A fleet \in Reorderings(vehicle_configs) : DepotListFor(fleet) = unique_depots

\* a fleet of which one order meets the depots in sorted order and another does not
C14_Witness ==
    /\ distance_matrix # NoMatrix
    /\ \E f \in Reorderings(vehicle_configs), g \in Reorderings(vehicle_configs) :
          /\ EncounteredDepots(f, 1, <<depot_location>>)
                 # EncounteredDepots(g, 1, <<depot_location>>)
          /\ Len(EncounteredDepots(f, 1, <<depot_location>>)) = 3


(***************************************************************************)
(* The distance matrix and the race: properties                            *)
(***************************************************************************)
WorkerStarted ==
    \/ \E w \in 1..Len(solver_runs) : solver_runs[w] # Pending
    \/ \E w \in 1..Len(results) : results[w] # Pending

\* C15: the distance matrix is acquired exactly once per run and before any worker
\* starts: get_distance_matrix is called at most once, and once in every run that has
\* gone past it; a worker has started only after it returned a matrix; when it returns
\* none the run ends with no worker started; and no step of a worker calls the matrix
\* service, sends a request to the routing engine or writes the matrix cache.
C15_MatrixOnceBeforeWorkers ==
    /\ [](/\ matrix_calls <= 1
          /\ pc \in {"matrix", "racing", "done", "exit"} => matrix_calls = 1
          /\ (pc \in {"matrix", "racing", "done"} \/ WorkerStarted \/ solver_configs # <<>>)
                 => (matrix_calls = 1 /\ distance_matrix # NoMatrix)
          /\ (matrix_calls = 1 /\ distance_matrix = NoMatrix)
                 => (pc = "exit" /\ ~WorkerStarted /\ solver_configs = <<>>))
    /\ [][(solver_runs' # solver_runs \/ results' # results \/ best_solution' # best_solution)
             => UNCHANGED <<distance_matrix, matrix_calls, central_cache, engine_requests>>]_vars

\* a race in which a worker has solved on the matrix built by the one call
C15_Witness ==
    /\ pc = "racing"
    /\ \E w \in 1..Len(results) : results[w] # Pending
    /\ matrix_calls = 1
    /\ engine_requests > 1
    /\ distance_matrix \in central_cache


\* C16: a worker that finds no solution or fails inside the solver contributes an empty
\* result and does not abort the race: its result is None exactly when its solver
\* returned no routes, the step that records it leaves the race running and the other
\* workers' results alone; when the race is over a solution with routes is selected if
\* some worker returned one, and if every worker failed no solution is reported.
C16_FailedWorkerDoesNotAbortRace ==
    /\ [](/\ \A w \in 1..Len(results) :
                results[w] # Pending =>
                    /\ (results[w] = NoSolution) <=> (solver_runs[w].solution.routes = <<>>)
                    /\ results[w] # NoSolution => results[w] = solver_runs[w].solution
          /\ (Raced /\ results # <<>>) =>
                IF \E w \in 1..Len(results) : results[w] # NoSolution
                THEN /\ pc = "done"
                     /\ best_solution # NoSolution
                     /\ best_solution.routes # <<>>
                ELSE /\ pc = "exit"
                     /\ best_solution = NoSolution)
    /\ [][\A w \in 1..Len(results) :
             (pc = "racing" /\ results[w] = Pending /\ Len(results') = Len(results)
                  /\ results'[w] = NoSolution)
                 => /\ pc' = "racing"
                    /\ \A u \in 1..Len(results) : u # w => results'[u] = results[u]]_vars

\* a race that selected a solution although a worker's solver failed
C16_Witness ==
    /\ Raced
    /\ pc = "done"
    /\ \E w, u \in 1..Len(results) :
          /\ solver_runs[w] = EmptyRun
          /\ results[w] = NoSolution
          /\ results[u] # NoSolution
          /\ best_solution = WithServedVolume(results[u])


(***************************************************************************)
(* generate_solver_configs on its own                                      *)
(***************************************************************************)
MaxWorkers == 4

MaxListLen == 2

RECURSIVE ListsOver(_, _)
ListsOver(names, n) ==
    IF n = 0 THEN {<<>>}
    ELSE ListsOver(names, n - 1) \cup
         {Append(l, x) : l \in {k \in ListsOver(names, n - 1) : Len(k) = n - 1}, x \in names}

\* the base configurations: the default pair, which the lists can produce, and a pair
\* they cannot
GeneratorConfigs ==
    {[DefaultCVRPConfig EXCEPT !.enable_parallel_solving = TRUE,
                               !.num_workers = n,
                               !.first_solution_strategy = f,
                               !.parallel_first_solution_strategies = ss,
                               !.parallel_local_search_metaheuristics = ms] :
         n \in 1..MaxWorkers, f \in {"PATH_CHEAPEST_ARC", "AUTOMATIC"},
         ss \in ListsOver({"PATH_CHEAPEST_ARC", "SAVINGS"}, MaxListLen),
         ms \in ListsOver({"GUIDED_LOCAL_SEARCH", "TABU_SEARCH"}, MaxListLen)}

InitConfigs ==
    /\ pc = "start"
    /\ customers = <<>>
    /\ warehouse_config = [enable_warehouse |-> FALSE, sort_by_volume |-> FALSE,
                           move_largest_to_warehouse |-> FALSE,
                           large_request_threshold |-> 60,
                           ortools_target_utilization |-> 80,
                           ortools_safe_utilization |-> 75]
    /\ vehicle_configs = RacedFleet
    /\ allocation = NoAllocation
    /\ cvrp_config \in GeneratorConfigs
    /\ depot_location = 2
    /\ cpu_cores = 2
    /\ distance_matrix = NoMatrix
    /\ solver_configs = <<>>
    /\ solver_runs = <<>>
    /\ results = <<>>
    /\ best_solution = NoSolution
    /\ osrm_config = DefaultOSRMConfig
    /\ matrix_calls = 0
    /\ central_cache = {}
    /\ engine_requests = 0
    /\ engine_epoch = 0
    /\ callers = <<>>
    /\ builds = {}
    /\ location_config = DefaultLocationConfig
    /\ routing = NoRouting
    /\ extraction = NoExtraction

\* one call of generate_solver_configs, as main() makes it
GenerateSolverConfigs ==
    /\ pc = "start"
    /\ Parallel
    /\ solver_configs' = generate_solver_configs(cvrp_config, NumWorkers)
    /\ pc' = "generated"
    /\ UNCHANGED <<customers, allocation, distance_matrix, configVars, routing, extraction, solver_runs,
                   results, best_solution, matrixVars>>

SpecConfigs == InitConfigs /\ [][GenerateSolverConfigs]_vars

PairOf(config) ==
    [s |-> config.first_solution_strategy, m |-> config.local_search_metaheuristic]

ProductPairs ==
    {[s |-> cvrp_config.parallel_first_solution_strategies[i],
      m |-> cvrp_config.parallel_local_search_metaheuristics[j]] :
         i \in 1..Len(cvrp_config.parallel_first_solution_strategies),
         j \in 1..Len(cvrp_config.parallel_local_search_metaheuristics)}

\* where a pair first stands in the product, taken strategy by strategy
FirstPosition(pair) ==
    LET i == CHOOSE k \in 1..Len(cvrp_config.parallel_first_solution_strategies) :
                 /\ cvrp_config.parallel_first_solution_strategies[k] = pair.s
                 /\ \A l \in 1..(k - 1) :
                       cvrp_config.parallel_first_solution_strategies[l] # pair.s
        j == CHOOSE k \in 1..Len(cvrp_config.parallel_local_search_metaheuristics) :
                 /\ cvrp_config.parallel_local_search_metaheuristics[k] = pair.m
                 /\ \A l \in 1..(k - 1) :
                       cvrp_config.parallel_local_search_metaheuristics[l] # pair.m
    IN  (i - 1) * Len(cvrp_config.parallel_local_search_metaheuristics) + j

\* C17: generate_solver_configs(base, num_workers) returns at most num_workers
\* configurations with pairwise distinct (strategy, metaheuristic) pairs; the first
\* min(num_workers, distinct pairs of the product) of them are the base with the
\* distinct pairs of the product in strategy-major order, none skipped; and the base
\* itself is appended after them only when the product yields fewer than num_workers
\* distinct pairs (and the base is not already among them).
C17_DistinctPairsInProductOrder ==
    pc = "generated" =>
        LET n == NumWorkers
            k == Cardinality(ProductPairs)
            fromProduct == Min(n, k)
            baseAdded == k < n /\ PairOf(cvrp_config) \notin ProductPairs
        IN  /\ Len(solver_configs) <= n
            /\ \A i, j \in 1..Len(solver_configs) :
                  i # j => PairOf(solver_configs[i]) # PairOf(solver_configs[j])
            /\ Len(solver_configs) = fromProduct + (IF baseAdded THEN 1 ELSE 0)
            /\ \A i \in 1..fromProduct :
                  /\ PairOf(solver_configs[i]) \in ProductPairs
                  /\ solver_configs[i] =
                         [cvrp_config EXCEPT
                             !.first_solution_strategy = PairOf(solver_configs[i]).s,
                             !.local_search_metaheuristic = PairOf(solver_configs[i]).m]
                  /\ \A q \in ProductPairs :
                        FirstPosition(q) < FirstPosition(PairOf(solver_configs[i]))
                            => \E j \in 1..(i - 1) : PairOf(solver_configs[j]) = q
            /\ baseAdded => solver_configs[Len(solver_configs)] = cvrp_config
            /\ (Len(solver_configs) > fromProduct) => k < n

\* lists with a repeated pair that yield fewer pairs than workers: the base is appended
C17_Witness ==
    /\ pc = "generated"
    /\ Cardinality(ProductPairs) = 2
    /\ Len(cvrp_config.parallel_first_solution_strategies)
           * Len(cvrp_config.parallel_local_search_metaheuristics) = 4
    /\ NumWorkers = 4
    /\ Len(solver_configs) = 3
    /\ solver_configs[3] = cvrp_config


(***************************************************************************)
(* get_distance_matrix called several times, the calls running together    *)
(***************************************************************************)
MaxCallers == 2

MaxChunkSize == 3

\* depots first, then customers; two lists hold the same locations in another order
LocationLists == {<<2, 3>>, <<3, 2>>, <<2, 3, 4>>}

Caller(locations) ==
    [locations |-> locations, pc |-> "idle", followed |-> FALSE, earlier |-> NoMatrix,
     waited |-> FALSE, requests |-> 0, result |-> NoMatrix]

InitMatrix ==
    /\ pc = "start"
    /\ customers = <<>>
    /\ warehouse_config = [enable_warehouse |-> FALSE, sort_by_volume |-> FALSE,
                           move_largest_to_warehouse |-> FALSE,
                           large_request_threshold |-> 60,
                           ortools_target_utilization |-> 80,
                           ortools_safe_utilization |-> 75]
    /\ vehicle_configs = RacedFleet
    /\ allocation = NoAllocation
    /\ cvrp_config = DefaultCVRPConfig
    /\ depot_location = 2
    /\ cpu_cores = 1
    /\ distance_matrix = NoMatrix
    /\ solver_configs = <<>>
    /\ solver_runs = <<>>
    /\ results = <<>>
    /\ best_solution = NoSolution
    /\ osrm_config \in {[chunk_size |-> c] : c \in 1..MaxChunkSize}
    /\ matrix_calls = 0
    /\ central_cache = {}
    /\ engine_requests = 0
    /\ engine_epoch = 0
    /\ callers \in {[c \in 1..MaxCallers |-> Caller(f[c])] :
                        f \in [1..MaxCallers -> LocationLists]}
    /\ builds = {}
    /\ location_config = DefaultLocationConfig
    /\ routing = NoRouting
    /\ extraction = NoExtraction

\* the calls that have returned a matrix for these locations
Returned(locations) ==
    {d \in 1..Len(callers) : /\ callers[d].locations = locations
                              /\ callers[d].pc = "returned"}

\* a call begins; it is noted whether a call for the same list has already succeeded
BeginCall(c) ==
    /\ callers[c].pc = "idle"
    /\ callers' = [callers EXCEPT
                      ![c].pc = "call",
                      ![c].followed = Returned(callers[c].locations) # {},
                      ![c].earlier =
                          IF Returned(callers[c].locations) = {} THEN NoMatrix
                          ELSE callers[CHOOSE d \in Returned(callers[c].locations) : TRUE].result]
    /\ matrix_calls' = matrix_calls + 1
    /\ UNCHANGED <<mainVars, osrm_config, central_cache, engine_requests, engine_epoch, builds>>

\* distance_matrix = get_distance_matrix_from_central_cache(all_locations)
CentralCacheLookup(c) ==
    /\ callers[c].pc = "call"
    /\ LET cached == get_distance_matrix_from_central_cache(central_cache, callers[c].locations)
       IN  callers' = IF cached # NoMatrix
                      THEN [callers EXCEPT ![c].pc = "returned", ![c].result = cached]
                      ELSE [callers EXCEPT ![c].pc = "miss"]
    /\ UNCHANGED <<mainVars, osrm_config, matrix_calls, central_cache, engine_requests,
                   engine_epoch, builds>>

\* a variant of the coalescing lock that sees no build
InFlight_Unseen(bs, locations) == FALSE

\* the coalescing lock: a build for this key is in flight
InFlight(bs, locations) == \E b \in bs : b.locations = locations

\* osrm_client.get_distance_matrix(all_locations), entered under the coalescing lock: the
\* cache once more, then wait for the build in flight or start the build
ClientGetMatrix(c) ==
    /\ callers[c].pc = "miss"
    /\ LET cached == get_distance_matrix_from_central_cache(central_cache, callers[c].locations)
       IN  IF cached # NoMatrix
           THEN /\ callers' = [callers EXCEPT ![c].pc = "returned", ![c].result = cached]
                /\ UNCHANGED builds
           ELSE IF InFlight(builds, callers[c].locations)
           THEN /\ callers' = [callers EXCEPT ![c].pc = "waiting", ![c].waited = TRUE]
                /\ UNCHANGED builds
           ELSE /\ callers' = [callers EXCEPT ![c].pc = "building"]
                /\ builds' = builds \cup {NewBuild(c, callers[c].locations)}
    /\ UNCHANGED <<mainVars, osrm_config, matrix_calls, central_cache, engine_requests,
                   engine_epoch>>

\* one table request of the build: the engine answers, or fails for good and the whole
\* fetch fails
TableRequest(c) ==
    /\ callers[c].pc = "building"
    /\ \E b \in builds :
          /\ b.owner = c
          /\ ~BuildComplete(b, osrm_config.chunk_size)
          /\ \/ /\ builds' = (builds \ {b})
                                 \cup {FillChunk(b, osrm_config.chunk_size, engine_epoch)}
                /\ callers' = [callers EXCEPT ![c].requests = @ + 1]
             \/ /\ builds' = builds \ {b}
                /\ callers' = [callers EXCEPT ![c].pc = "failed", ![c].requests = @ + 1]
    /\ engine_requests' = engine_requests + 1
    /\ UNCHANGED <<mainVars, osrm_config, matrix_calls, central_cache, engine_epoch>>

\* the completed matrix is stored and returned
PersistBuild(c) ==
    /\ callers[c].pc = "building"
    /\ \E b \in builds :
          /\ b.owner = c
          /\ BuildComplete(b, osrm_config.chunk_size)
          /\ central_cache' = Persist(central_cache, Assemble(b))
          /\ builds' = builds \ {b}
          /\ callers' = [callers EXCEPT ![c].pc = "returned", ![c].result = Assemble(b)]
    /\ UNCHANGED <<mainVars, osrm_config, matrix_calls, engine_requests, engine_epoch>>

\* a caller that waited receives what the build it waited for produced
Join(c) ==
    /\ callers[c].pc = "waiting"
    /\ ~InFlight(builds, callers[c].locations)
    /\ LET cached == get_distance_matrix_from_central_cache(central_cache, callers[c].locations)
       IN  callers' = IF cached # NoMatrix
                      THEN [callers EXCEPT ![c].pc = "returned", ![c].result = cached]
                      ELSE [callers EXCEPT ![c].pc = "failed"]
    /\ UNCHANGED <<mainVars, osrm_config, matrix_calls, central_cache, engine_requests,
                   engine_epoch, builds>>

\* the road data of the routing engine changes
EngineUpdate ==
    /\ engine_epoch = 0
    /\ engine_epoch' = 1
    /\ UNCHANGED <<mainVars, osrm_config, matrix_calls, central_cache, engine_requests,
                   callers, builds>>

NextMatrix ==
    \/ \E c \in 1..Len(callers) : BeginCall(c)
    \/ \E c \in 1..Len(callers) : CentralCacheLookup(c)
    \/ \E c \in 1..Len(callers) : ClientGetMatrix(c)
    \/ \E c \in 1..Len(callers) : TableRequest(c)
    \/ \E c \in 1..Len(callers) : PersistBuild(c)
    \/ \E c \in 1..Len(callers) : Join(c)
    \/ EngineUpdate

SpecMatrix == InitMatrix /\ [][NextMatrix]_vars


(***************************************************************************)
(* The distance-matrix service: properties                                 *)
(***************************************************************************)
Owns(c) == \E b \in builds : b.owner = c

C19_BuildsCoalesce ==
    /\ \A b1, b2 \in builds : b1.locations = b2.locations => b1 = b2
    /\ \A c \in 1..Len(callers) :
          callers[c].waited =>
              /\ callers[c].requests = 0
              /\ ~Owns(c)
              /\ callers[c].pc = "returned" =>
                    \E d \in 1..Len(callers) :
                        /\ d # c
                        /\ callers[d].locations = callers[c].locations
                        /\ callers[d].requests > 0
                        /\ callers[d].pc = "returned"
                        /\ callers[d].result = callers[c].result

\* a caller that waited for the other caller's build and returned its matrix
C19_Witness ==
    \E c \in 1..Len(callers) :
        /\ callers[c].waited
        /\ callers[c].pc = "returned"
        /\ callers[c].result \in central_cache

Square(matrix) ==
    LET n == Len(matrix.locations)
    IN  /\ DOMAIN matrix.distances = 0..(n - 1)
        /\ DOMAIN matrix.durations = 0..(n - 1)
        /\ \A i \in 0..(n - 1) :
              /\ DOMAIN matrix.distances[i] = 0..(n - 1)
              /\ DOMAIN matrix.durations[i] = 0..(n - 1)
              /\ matrix.distances[i][i] = 0
              /\ matrix.durations[i][i] = 0

center_zone_customers == allocation.center_zone_customers

calculate_distance_km(coord1, coord2) ==
    IF coord1 = NoLocation \/ coord2 = NoLocation THEN Infinity ELSE Abs(coord1 - coord2)

\* data['..._vehicle_ids'] of _create_data_model
VehicleIdsOfType(type) ==
    {v \in VehicleIds : vehicle_configs[ExpandVehicles(1)[v + 1]].vehicle_type = type}

\* data['service_times'] = [0] * len(unique_depots) + [base_service_time] * len(customers)
service_times ==
    [node \in 0..(num_depots + num_customers - 1) |->
        IF node < num_depots THEN 0 ELSE base_service_time]

\* the numerator of volume_factor = (volume_normalization_factor - customer_volume)
\*                                      / volume_normalization_factor
VolumeFactor(customer_volume) == cvrp_config.volume_normalization_factor - customer_volume

\* discount = min(max_discount_percentage, combined_factor / discount_factor_divisor)
Discount(customer) ==
    LET dnf == cvrp_config.distance_normalization_factor
        vnf == cvrp_config.volume_normalization_factor
        num == customer.distance_from_depot_m * cvrp_config.distance_weight * vnf
                   + VolumeFactor(customer.volume) * cvrp_config.volume_weight * dnf
        den == dnf * vnf * cvrp_config.discount_factor_divisor
    IN  IF cvrp_config.max_discount_percentage * den <= 100 * num
        THEN [num |-> cvrp_config.max_discount_percentage, den |-> 100]
        ELSE [num |-> num, den |-> den]

base_distance_callback(from_node, to_node) == distance_matrix.distances[from_node][to_node]

\* int(base_distance * (1.0 - discount)) for a customer node
priority_non_center_callback(from_node, to_node) ==
    LET base_distance == distance_matrix.distances[from_node][to_node]
    IN  IF to_node >= num_depots
        THEN LET discount == Discount(solver_customers[to_node - num_depots + 1])
             IN  (base_distance * (discount.den - discount.num)) \div discount.den
        ELSE base_distance

\* int(distance * 0.5) for a customer of the center_zone_customers list
center_bus_priority_callback(from_node, to_node) ==
    IF /\ to_node >= num_depots
       /\ \E k \in 1..Len(center_zone_customers) :
             center_zone_customers[k].id = solver_customers[to_node - num_depots + 1].id
    THEN distance_matrix.distances[from_node][to_node] \div 2
    ELSE distance_matrix.distances[from_node][to_node]

\* external_, internal_ and special_bus_penalty_callback: the same body, each with the
\* multiplier of its type
bus_penalty_callback(multiplier, from_node, to_node) ==
    IF /\ to_node >= num_depots
       /\ solver_customers[to_node - num_depots + 1].coordinates # NoLocation
       /\ calculate_distance_km(solver_customers[to_node - num_depots + 1].coordinates,
                                location_config.center_location)
              <= location_config.center_zone_radius_km
    THEN distance_matrix.distances[from_node][to_node] * multiplier
    ELSE distance_matrix.distances[from_node][to_node]

\* routing.SetArcCostEvaluatorOfVehicle(callback, vehicle_id) for each id of the list
SetArcCostEvaluatorOfVehicles(evaluators, callback, vehicle_ids) ==
    [v \in DOMAIN evaluators |-> IF v \in vehicle_ids THEN callback ELSE evaluators[v]]

\* steps 6, 7 and 8: the penalty callback of a type is bound to its vehicles when the
\* type has vehicles and the center-zone restrictions are enabled
PenaltyEvaluators(evaluators, callback, vehicle_ids) ==
    IF vehicle_ids # {} /\ location_config.enable_center_zone_restrictions
    THEN SetArcCostEvaluatorOfVehicles(evaluators, callback, vehicle_ids)
    ELSE evaluators

\* the arc cost evaluator of every vehicle after the calls of solve(), in their order
ArcCostEvaluators ==
    LET all == [v \in VehicleIds |-> "base_distance_callback"]
        priority ==
            SetArcCostEvaluatorOfVehicles(all, "priority_non_center_callback",
                VehicleIdsOfType("external_bus") \cup VehicleIdsOfType("internal_bus")
                    \cup VehicleIdsOfType("special_bus"))
        center ==
            IF center_zone_customers # <<>> /\ VehicleIdsOfType("center_bus") # {}
            THEN SetArcCostEvaluatorOfVehicles(priority, "center_bus_priority_callback",
                                               VehicleIdsOfType("center_bus"))
            ELSE priority
        external == PenaltyEvaluators(center, "external_bus_penalty_callback",
                                      VehicleIdsOfType("external_bus"))
        internal == PenaltyEvaluators(external, "internal_bus_penalty_callback",
                                      VehicleIdsOfType("internal_bus"))
    IN  PenaltyEvaluators(internal, "special_bus_penalty_callback",
                          VehicleIdsOfType("special_bus"))

\* what the evaluator bound to vehicle v returns for the arc
ArcCost(v, from_node, to_node) ==
    CASE routing.arc_cost_evaluator[v] = "base_distance_callback" ->
             base_distance_callback(from_node, to_node)
      [] routing.arc_cost_evaluator[v] = "priority_non_center_callback" ->
             priority_non_center_callback(from_node, to_node)
      [] routing.arc_cost_evaluator[v] = "center_bus_priority_callback" ->
             center_bus_priority_callback(from_node, to_node)
      [] routing.arc_cost_evaluator[v] = "external_bus_penalty_callback" ->
             bus_penalty_callback(location_config.external_bus_center_penalty_multiplier,
                                  from_node, to_node)
      [] routing.arc_cost_evaluator[v] = "internal_bus_penalty_callback" ->
             bus_penalty_callback(location_config.internal_bus_center_penalty_multiplier,
                                  from_node, to_node)
      [] routing.arc_cost_evaluator[v] = "special_bus_penalty_callback" ->
             bus_penalty_callback(location_config.special_bus_center_penalty_multiplier,
                                  from_node, to_node)

\* int(service_time + travel_time), the transit of the Time dimension of every vehicle
time_callback(from_node, to_node) ==
    routing.service_times[from_node] + distance_matrix.durations[from_node][to_node]

(***************************************************************************)
(* The model building of solve() on its own                                *)
(***************************************************************************)
CostCustomer(id, volume, coordinates, distance_from_depot_m) ==
    [id |-> id, volume |-> volume, coordinates |-> coordinates,
     distance_from_depot_m |-> distance_from_depot_m]

\* customer 1 at the center of the zone, customer 2 outside it and either next to the
\* depot or far from it; volumes below and above the normalisation volume of 5
CostCustomers ==
    {<<CostCustomer(1, a, 5, 4), CostCustomer(2, b, 0, d)>> :
         a \in {1, 6}, b \in {1, 6}, d \in {0, 4}}

ServicedVehicle(type, start, service_time_minutes) ==
    [VehicleConfig(type, 8, 1, TRUE) EXCEPT
        !.start_location = start, !.service_time_minutes = service_time_minutes]

\* the four types with service times of their own; a center bus alone; an internal bus
\* and a special bus
CostFleets ==
    { <<ServicedVehicle("internal_bus", NoLocation, 15), ServicedVehicle("center_bus", 5, 10),
        ServicedVehicle("external_bus", NoLocation, 20),
        ServicedVehicle("special_bus", NoLocation, 15)>>,
      <<ServicedVehicle("center_bus", 5, 10)>>,
      <<ServicedVehicle("internal_bus", NoLocation, 15),
        ServicedVehicle("special_bus", NoLocation, 15)>> }

DiscountConfig ==
    [distance_normalization_factor |-> 10, volume_normalization_factor |-> 5,
     distance_weight |-> 1, volume_weight |-> 1,
     max_discount_percentage |-> 50, discount_factor_divisor |-> 2]
    @@ DefaultCVRPConfig

InitCost ==
    /\ pc = "worker"
    /\ customers \in CostCustomers
    /\ warehouse_config = [enable_warehouse |-> FALSE, sort_by_volume |-> FALSE,
                           move_largest_to_warehouse |-> FALSE,
                           large_request_threshold |-> 60,
                           ortools_target_utilization |-> 80,
                           ortools_safe_utilization |-> 75]
    /\ vehicle_configs \in CostFleets
    /\ cvrp_config = DiscountConfig
    /\ depot_location = 2
    /\ cpu_cores = 1
    /\ location_config \in
           {[DefaultLocationConfig EXCEPT !.enable_center_zone_restrictions = e] :
                e \in BOOLEAN}
    /\ allocation \in
           {[vehicle_customers |-> customers, warehouse_customers |-> <<>>,
             center_zone_customers |-> z] : z \in {<<>>, <<customers[1]>>}}
    /\ distance_matrix = MatrixFor(all_locations)
    /\ solver_configs = <<>>
    /\ solver_runs = <<>>
    /\ results = <<>>
    /\ best_solution = NoSolution
    /\ osrm_config = DefaultOSRMConfig
    /\ matrix_calls = 0
    /\ central_cache = {}
    /\ engine_requests = 0
    /\ engine_epoch = 0
    /\ callers = <<>>
    /\ builds = {}
    /\ routing = NoRouting
    /\ extraction = NoExtraction

\* solve(), steps 1 to 8: the data model, the dimensions and the arc cost evaluators
CreateRoutingModel ==
    /\ pc = "worker"
    /\ routing' = [arc_cost_evaluator |-> ArcCostEvaluators, service_times |-> service_times]
    /\ pc' = "model"
    /\ UNCHANGED <<customers, allocation, distance_matrix, configVars, raceVars, matrixVars,
                   extraction>>

SpecCost == InitCost /\ [][CreateRoutingModel]_vars


(***************************************************************************)
(* The arc costs and the Time transit: properties                          *)
(***************************************************************************)
Nodes == 0..(num_depots + num_customers - 1)

NodeCustomer(node) == solver_customers[node - num_depots + 1]

\* the customer lies in the disk around center_location or is listed as a center customer
InCenterZone(customer) ==
    \/ calculate_distance_km(customer.coordinates, location_config.center_location)
           <= location_config.center_zone_radius_km
    \/ \E k \in 1..Len(center_zone_customers) : center_zone_customers[k].id = customer.id

NonCenterVehicles ==
    VehicleIdsOfType("internal_bus") \cup VehicleIdsOfType("external_bus")
        \cup VehicleIdsOfType("special_bus")

\* C21: for every internal, external or special vehicle the cost of an arc into a
\* customer outside the center zone is distance[i][j] * (1 - discount) with
\* discount = min(max_discount, (df * wd + vf * wv) / divisor), whether or not the
\* center-zone restrictions are enabled, and the cost of an arc into a depot is
\* distance[i][j].
C21_DiscountedArcCost ==
    pc = "model" =>
        \A v \in NonCenterVehicles : \A from_node, to_node \in Nodes :
            IF to_node < num_depots
            THEN ArcCost(v, from_node, to_node) = distance_matrix.distances[from_node][to_node]
            ELSE ~InCenterZone(NodeCustomer(to_node)) =>
                     ArcCost(v, from_node, to_node)
                         = priority_non_center_callback(from_node, to_node)

\* C22: with the center-zone restrictions disabled no vehicle's arc cost depends on
\* whether the destination customer lies in the center zone: a center bus pays the
\* distance, without the multiplier 0.5, and every other vehicle pays what the
\* far-low-volume discount leaves.
C22_NoZoneCostWhenDisabled ==
    (pc = "model" /\ ~location_config.enable_center_zone_restrictions) =>
        \A v \in VehicleIds : \A from_node, to_node \in Nodes :
            ArcCost(v, from_node, to_node)
                = IF v \in VehicleIdsOfType("center_bus")
                  THEN distance_matrix.distances[from_node][to_node]
                  ELSE priority_non_center_callback(from_node, to_node)

\* C23: the Time transit charged to vehicle v on an arc (i, j) is duration[i][j] plus
\* the per-stop service time of v's own vehicle type when i is a customer, and
\* duration[i][j] alone when i is a depot.
C23_TimeTransitOwnServiceTime ==
    pc = "model" =>
        \A v \in VehicleIds : \A from_node, to_node \in Nodes :
            time_callback(from_node, to_node)
                = distance_matrix.durations[from_node][to_node]
                  + (IF from_node >= num_depots
                     THEN vehicle_configs[ExpandVehicles(1)[v + 1]].service_time_minutes * 60
                     ELSE 0)

\* C24: the far-low-volume discount lies between 0 and max_discount_percentage, so the
\* discounted cost of an arc is at most distance[i][j] and at least
\* distance[i][j] * (1 - max_discount_percentage).
C24_DiscountWithinBounds ==
    pc = "model" =>
        \A v \in VehicleIds :
            routing.arc_cost_evaluator[v] = "priority_non_center_callback" =>
                /\ \A k \in 1..num_customers :
                      /\ Discount(solver_customers[k]).num >= 0
                      /\ 100 * Discount(solver_customers[k]).num
                             <= cvrp_config.max_discount_percentage
                                    * Discount(solver_customers[k]).den
                /\ \A from_node, to_node \in Nodes :
                      /\ ArcCost(v, from_node, to_node)
                             <= distance_matrix.distances[from_node][to_node]
                      /\ 100 * (ArcCost(v, from_node, to_node) + 1)
                             > distance_matrix.distances[from_node][to_node]
                                   * (100 - cvrp_config.max_discount_percentage)

(***************************************************************************)
(* The final reconfiguration: properties                                   *)
(***************************************************************************)
\* the finished runs whose routes went through _reconfigure_routes_from_depot
ReconfiguredRuns ==
    {w \in FinishedRuns :
        solver_runs[w].extracted /\ cvrp_config.enable_final_depot_reconfiguration}

\* the customers of route_customers not among the first picked of order, in the order
\* of route_customers
RemainingAfter(route_customers, order, picked) ==
    SelectSeq(route_customers, LAMBDA c : \A j \in 1..picked : order[j] # c)

\* the node the k-th pick is measured from: matrix index 0, then the customer before
PickedFrom(order, k) == IF k = 1 THEN 0 ELSE MatrixIndexOf(order[k - 1])

\* the k-th customer of order is the nearest of the remaining ones from the node before
\* it, and the earliest of the equally near
IsNearestPick(route_customers, order, k) ==
    LET remaining == RemainingAfter(route_customers, order, k - 1)
        d(c) == distance_matrix.distances[PickedFrom(order, k)][MatrixIndexOf(c)]
    IN  \E i \in 1..Len(remaining) :
            /\ remaining[i] = order[k]
            /\ \A j \in 1..Len(remaining) : d(order[k]) <= d(remaining[j])
            /\ \A j \in 1..(i - 1) : d(remaining[j]) > d(order[k])

\* C25: _optimize_route_from_depot orders the customers of a route by nearest neighbour
\* from matrix index 0: the first customer is the nearest to index 0, each later one the
\* nearest to the customer before it among those that remain, the earliest remaining
\* customer wins a tie, and there are exactly len(customers) picks.
C25_NearestNeighbourFromIndex0 ==
    \A w \in ReconfiguredRuns :
        \A i \in 1..Len(solver_runs[w].extracted_routes) :
            LET route_customers == solver_runs[w].extracted_routes[i].customers
                order == solver_runs[w].solution.routes[i].customers
            IN  /\ Len(order) = Len(route_customers)
                /\ \A k \in 1..Len(order) : IsNearestPick(route_customers, order, k)

\* a reconfigured route of three customers whose first pick was a tie that the earlier
\* customer won, and whose order is not the order the solver gave
C25_Witness ==
    \E w \in ReconfiguredRuns :
        \E i \in 1..Len(solver_runs[w].extracted_routes) :
            LET route_customers == solver_runs[w].extracted_routes[i].customers
                order == solver_runs[w].solution.routes[i].customers
                d(c) == distance_matrix.distances[0][MatrixIndexOf(c)]
            IN  /\ Len(route_customers) = 3
                /\ order # route_customers
                /\ \E a, b \in 1..3 :
                       /\ a < b
                       /\ order[1] = route_customers[a]
                       /\ d(route_customers[a]) = d(route_customers[b])

\* the configuration of a vehicle type of the fleet
ConfigOfType(vehicle_type) ==
    vehicle_configs[CHOOSE i \in 1..Len(vehicle_configs) :
                        vehicle_configs[i].vehicle_type = vehicle_type]

\* a route's totals exceed a limit of its vehicle type (a limit of 0 is no limit)
ExceedsTypeLimit(route) ==
    LET vc == ConfigOfType(route.vehicle_type)
    IN  \/ route.total_volume > vc.capacity
        \/ route.total_time_s > vc.max_time_hours * 3600
        \/ vc.max_distance_km # 0 /\ route.total_distance_m > vc.max_distance_km * 1000
        \/ /\ vc.max_customers_per_route # 0
           /\ Len(route.customers) > vc.max_customers_per_route

\* C26: the reconfiguration removes no route: every route it is given (each has at least
\* one customer) yields exactly one route, for the same vehicle, and that route is marked
\* infeasible exactly when its recomputed volume, time, distance or number of customers
\* exceeds the limit of its vehicle type.
C26_ReconfigurationKeepsAndMarks ==
    \A w \in ReconfiguredRuns :
        LET before == solver_runs[w].extracted_routes
            after  == solver_runs[w].solution.routes
        IN  /\ Len(after) = Len(before)
            /\ \A i \in 1..Len(before) :
                   /\ before[i].customers # <<>>
                   /\ after[i].vehicle_id = before[i].vehicle_id
                   /\ after[i].total_volume = SumVolume(after[i].customers)
                   /\ after[i].total_distance_m
                          = _calculate_route_from_depot(after[i].customers).distance
                   /\ after[i].total_time_s
                          = _calculate_route_from_depot(after[i].customers).time
                   /\ (~after[i].is_feasible) <=> ExceedsTypeLimit(after[i])

\* a reconfiguration of two routes that kept both and marked one of them infeasible
C26_Witness ==
    \E w \in ReconfiguredRuns :
        LET after == solver_runs[w].solution.routes
        IN  /\ Len(solver_runs[w].extracted_routes) = 2
            /\ Len(after) = 2
            /\ ~after[1].is_feasible
            /\ after[2].is_feasible

(***************************************************************************)
(* The walk that extracts one vehicle's route, step by step                *)
(***************************************************************************)
\* the longest walk the model follows
MaxWalkSteps == 14

\* routing.End(vehicle_id): the index after the nodes of the matrix
EndIndex == num_depots + num_customers

\* manager.IndexToNode(index): the end index is the vehicle's depot again
IndexToNode(index) == IF index = EndIndex THEN 0 ELSE index

\* solution.Value(routing.NextVar(index)) for every index that is not an end: the
\* successor is a customer node or the end, and nothing says the chain reaches the end
SuccessorChains == [0..(EndIndex - 1) -> 1..EndIndex]

\* max_iterations = len(self.customers) + 10
max_iterations == num_customers + 10

InitWalk ==
    /\ pc = "extract"
    /\ customers \in {<<Customer(1, 1, 3)>>, <<Customer(1, 1, 3), Customer(2, 2, 4)>>}
    /\ warehouse_config = [enable_warehouse |-> FALSE, sort_by_volume |-> FALSE,
                           move_largest_to_warehouse |-> FALSE,
                           large_request_threshold |-> 60,
                           ortools_target_utilization |-> 80,
                           ortools_safe_utilization |-> 75]
    /\ vehicle_configs = <<VehicleConfig("internal_bus", 8, 1, TRUE)>>
    /\ cvrp_config \in {[DefaultCVRPConfig EXCEPT !.use_simple_solver = b] : b \in BOOLEAN}
    /\ depot_location = 2
    /\ cpu_cores = 1
    /\ location_config = DefaultLocationConfig
    /\ allocation = [vehicle_customers |-> customers, warehouse_customers |-> <<>>,
                     center_zone_customers |-> <<>>]
    /\ distance_matrix = MatrixFor(all_locations)
    /\ solver_configs = <<>>
    /\ solver_runs = <<>>
    /\ results = <<>>
    /\ best_solution = NoSolution
    /\ osrm_config = DefaultOSRMConfig
    /\ matrix_calls = 0
    /\ central_cache = {}
    /\ engine_requests = 0
    /\ engine_epoch = 0
    /\ callers = <<>>
    /\ builds = {}
    /\ routing = NoRouting
    /\ extraction \in
           {[solution |-> next, index |-> 0, iteration_count |-> 0, steps |-> 0,
             route_customers |-> <<>>, route_distance |-> 0, abandoned |-> FALSE] :
                next \in SuccessorChains}

\* one pass through the body of "while not routing.IsEnd(index)": the customer of the
\* node joins the route, the walk moves to the successor and the arc is added to the
\* distance; _extract_solution counts the pass first, _extract_simple_solution has no
\* counter
WalkStep ==
    /\ pc = "extract"
    /\ extraction.index # EndIndex
    /\ extraction.steps < MaxWalkSteps
    /\ cvrp_config.use_simple_solver \/ extraction.iteration_count + 1 <= max_iterations
    /\ LET node_index == IndexToNode(extraction.index)
           first_customer_node == IF cvrp_config.use_simple_solver THEN 1 ELSE num_depots
           customer_index == node_index - first_customer_node
           is_customer == /\ node_index >= first_customer_node
                          /\ 0 <= customer_index
                          /\ customer_index < num_customers
           index == extraction.solution[extraction.index]
       IN  extraction' =
               [extraction EXCEPT
                   !.iteration_count = IF cvrp_config.use_simple_solver THEN @ ELSE @ + 1,
                   !.steps = @ + 1,
                   !.route_customers =
                       IF is_customer THEN Append(@, solver_customers[customer_index + 1])
                       ELSE @,
                   !.index = index,
                   !.route_distance =
                       @ + distance_matrix.distances[node_index][IndexToNode(index)]]
    /\ UNCHANGED <<pc, customers, allocation, distance_matrix, configVars, raceVars, routing,
                   matrixVars>>

\* _extract_solution: iteration_count > max_iterations, the walk is abandoned
WalkAbandon ==
    /\ pc = "extract"
    /\ extraction.index # EndIndex
    /\ ~cvrp_config.use_simple_solver
    /\ extraction.iteration_count + 1 > max_iterations
    /\ extraction' = [extraction EXCEPT !.iteration_count = @ + 1, !.abandoned = TRUE]
    /\ pc' = "extracted"
    /\ UNCHANGED <<customers, allocation, distance_matrix, configVars, raceVars, routing,
                   matrixVars>>

\* routing.IsEnd(index): the loop is left
WalkEnd ==
    /\ pc = "extract"
    /\ extraction.index = EndIndex
    /\ pc' = "extracted"
    /\ UNCHANGED <<customers, allocation, distance_matrix, configVars, raceVars, routing,
                   extraction, matrixVars>>

NextWalk == WalkStep \/ WalkAbandon \/ WalkEnd

SpecWalk == InitWalk /\ [][NextWalk]_vars

\* C27: the walk that extracts a vehicle's route makes at most num_customers + 10 passes
\* before it ends or is abandoned, also when the successor chain never reaches the end
\* node, in the full solver and in the simple one.
C27_WalkAtMostCustomersPlusTen ==
    extraction # NoExtraction => extraction.steps <= num_customers + 10

(***************************************************************************)
(* The solutions solve() and solve_simple() return: properties             *)
(***************************************************************************)
\* C28: solve and solve_simple propagate no exception: a run that found no assignment,
\* or in which a step of model building, solving or extraction raised, returns the empty
\* solution, with no routes, no dropped customers, zero served volume and is_feasible
\* false; every other run returns the solution it extracted.
C28_FailedRunReturnsEmptySolution ==
    \A w \in FinishedRuns :
        LET solution == solver_runs[w].solution
        IN  /\ DOMAIN solution = DOMAIN _create_empty_solution
            /\ ~solver_runs[w].extracted =>
                   /\ solution.routes = <<>>
                   /\ solution.dropped_customers = <<>>
                   /\ solution.total_served_volume = 0
                   /\ solution.total_vehicles_used = 0
                   /\ solution.is_feasible = FALSE

\* a run of the simple solver over a matrix with more than one depot, whose demand
\* callback raises, has returned the empty solution
C28_Witness ==
    \E w \in FinishedRuns :
        /\ ~solver_runs[w].extracted
        /\ solver_configs[w].use_simple_solver
        /\ num_depots > 1
        /\ solver_runs[w].solution.routes = <<>>
        /\ ~solver_runs[w].solution.is_feasible

\* C29: in every solution that comes out of extraction the aggregate fields agree with
\* the routes it carries: the total distance and the total time are the sums of the
\* routes' distances and times, total_vehicles_used is the number of routes and
\* total_served_volume the sum of the routes' volumes, also when the final depot
\* reconfiguration has replaced the routes.
C29_AggregatesAgreeWithRoutes ==
    \A w \in FinishedRuns :
        solver_runs[w].extracted =>
            LET solution == solver_runs[w].solution
            IN  /\ solution.total_distance_m = SumRouteDistance(solution.routes)
                /\ solution.total_time_s = SumRouteTime(solution.routes)
                /\ solution.total_vehicles_used = Len(solution.routes)
                /\ solution.total_served_volume = SumRouteVolume(solution.routes)

(***************************************************************************)
(* optimize_allocation: properties                                         *)
(***************************************************************************)
\* total_vehicle_volume is above total_vehicle_capacity x ortools_safe_utilization
AboveSafeVolume(a) ==
    100 * a.total_vehicle_volume
        > a.total_vehicle_capacity * warehouse_config.ortools_safe_utilization

IdsOf(cs) == {cs[i].id : i \in 1..Len(cs)}

\* C30: optimize_allocation moves customers from the warehouse to the vehicles only,
\* never the other way; it does not raise total_vehicle_volume above
\* total_vehicle_capacity x ortools_safe_utilization unless it was above it before; and
\* applied to its own result it moves no further customer.
C30_OptimizeMovesSafelyOnce ==
    [][(pc = "allocated" /\ pc' = "optimized") =>
          /\ SubSeq(allocation'.vehicle_customers, 1, Len(allocation.vehicle_customers))
                 = allocation.vehicle_customers
          /\ IdsOf(allocation'.warehouse_customers) \subseteq IdsOf(allocation.warehouse_customers)
          /\ IdsOf(allocation'.vehicle_customers) \ IdsOf(allocation.vehicle_customers)
                 = IdsOf(allocation.warehouse_customers) \ IdsOf(allocation'.warehouse_customers)
          /\ Len(allocation'.vehicle_customers) + Len(allocation'.warehouse_customers)
                 = Len(allocation.vehicle_customers) + Len(allocation.warehouse_customers)
          /\ allocation'.total_vehicle_volume = SumVolume(allocation'.vehicle_customers)
          /\ AboveSafeVolume(allocation') =>
                 /\ AboveSafeVolume(allocation)
                 /\ allocation'.total_vehicle_volume = allocation.total_vehicle_volume
          /\ optimize_allocation(allocation').vehicle_customers
                 = allocation'.vehicle_customers
          /\ IdsOf(optimize_allocation(allocation').warehouse_customers)
                 = IdsOf(allocation'.warehouse_customers)
      ]_vars

\* an optimisation that moved a customer to the vehicles and left another in the
\* warehouse
C30_Witness ==
    /\ pc = "optimized"
    /\ Len(allocation.vehicle_customers) > Len(allocate_customers.vehicle_customers)
    /\ allocation.warehouse_customers # <<>>

====
